---- MODULE Spec2Model ----
(***************************************************************************)
(* Tasks-Tracking: the date/status predicates, the CSV codec and the       *)
(* category colours of utils/helpers (src/unnamed/part_000, second         *)
(* version, lines 129-332); the handlers of App (src/App.tsx) with the     *)
(* form of TaskForm and the import of CsvManager; the rows of GanttChart.  *)
(*                                                                         *)
(* Strings are sequences of one-character strings.  Instants are counted   *)
(* in hours since 1970-01-01T00:00Z (the code counts milliseconds; every   *)
(* instant of the model is a whole hour, so 1000*60*60*24 ms is 24 units). *)
(***************************************************************************)
EXTENDS Integers, Sequences, FiniteSets, TLC

VARIABLES
    \* inputs and results of the helper functions
    task, now, tz, result, csv, parsed, pc,
    \* App: the task collection and the flags of the component (loadError is
    \* the state `error` of App, TaskForm having an `error` of its own)
    tasks, isLoading, isSaving, notification, loadError,
    \* App and TaskForm: the modal form
    isModalOpen, formData, error,
    \* App: the delete confirmation
    isConfirmOpen, taskToDeleteId,
    \* CsvManager: its status, the message shown with it, and the file chooser
    \* of the hidden input
    localStatus, statusMsg, fileDialog,
    \* the asynchronous operations in flight (gateway calls and file reads),
    \* the number of calls made so far to crypto.randomUUID(), and the number
    \* of operations started, of which saveCount are form saves
    pending, uuidCount, opCount, saveCount,
    \* GanttChart: the category whose tasks are shown, <<>> in the overview
    drilldownCategory

\* the state of the mounted application other than the task collection
appVars ==
    <<isLoading, isSaving, notification, loadError, isModalOpen, formData, error,
      isConfirmOpen, taskToDeleteId, localStatus, statusMsg, fileDialog, pending,
      uuidCount, opCount, saveCount, drilldownCategory>>

vars == <<task, now, tz, result, csv, parsed, pc, tasks, appVars>>

(***************************************************************************)
(* Characters and strings                                                  *)
(***************************************************************************)
Digits == <<"0", "1", "2", "3", "4", "5", "6", "7", "8", "9">>

Uppers == <<"A", "B", "C", "D", "E", "F", "G", "H", "I", "J", "K", "L", "M",
            "N", "O", "P", "Q", "R", "S", "T", "U", "V", "W", "X", "Y", "Z">>

Lowers == <<"a", "b", "c", "d", "e", "f", "g", "h", "i", "j", "k", "l", "m",
            "n", "o", "p", "q", "r", "s", "t", "u", "v", "w", "x", "y", "z">>

\* The characters String.prototype.trim removes (those the model uses).
WhiteSpace == {" ", "\n", "\r", "\t"}

IsDigit(c) == \E i \in 1..10 : Digits[i] = c

DigitVal(c) == (CHOOSE i \in 1..10 : Digits[i] = c) - 1

toLowerCaseChar(c) ==
    IF \E i \in 1..26 : Uppers[i] = c
    THEN Lowers[CHOOSE i \in 1..26 : Uppers[i] = c]
    ELSE c

toUpperCaseChar(c) ==
    IF \E i \in 1..26 : Lowers[i] = c
    THEN Uppers[CHOOSE i \in 1..26 : Lowers[i] = c]
    ELSE c

toLowerCase(s) == [i \in 1..Len(s) |-> toLowerCaseChar(s[i])]

\* String.prototype.trim
trim(s) ==
    IF \A i \in 1..Len(s) : s[i] \in WhiteSpace THEN <<>>
    ELSE LET lo == CHOOSE i \in 1..Len(s) :
                       /\ s[i] \notin WhiteSpace
                       /\ \A j \in 1..(i - 1) : s[j] \in WhiteSpace
             hi == CHOOSE i \in 1..Len(s) :
                       /\ s[i] \notin WhiteSpace
                       /\ \A j \in (i + 1)..Len(s) : s[j] \in WhiteSpace
         IN  SubSeq(s, lo, hi)

(***************************************************************************)
(* TaskStatus (types.ts)                                                   *)
(***************************************************************************)
NOT_STARTED == <<"N", "o", "t", " ", "S", "t", "a", "r", "t", "e", "d">>

IN_PROGRESS == <<"I", "n", " ", "P", "r", "o", "g", "r", "e", "s", "s">>

COMPLETED == <<"C", "o", "m", "p", "l", "e", "t", "e", "d">>

DELAYED == <<"D", "e", "l", "a", "y", "e", "d">>

\* Object.values(TaskStatus), in declaration order
TaskStatus == <<NOT_STARTED, IN_PROGRESS, COMPLETED, DELAYED>>

(***************************************************************************)
(* Dates: new Date("YYYY-MM-DD") and the local clock                       *)
(***************************************************************************)
\* 1000 * 60 * 60 * 24 ms, in the model's unit (hours)
DayLength == 24

\* the getTime() of an Invalid Date; every valid instant of the model is >= 0
NaN == -1

isNaN(t) == t = NaN

IsLeap(y) == (y % 4 = 0 /\ y % 100 # 0) \/ y % 400 = 0

DaysInMonth(y, m) ==
    IF m = 2 THEN (IF IsLeap(y) THEN 29 ELSE 28)
    ELSE IF m \in {4, 6, 9, 11} THEN 30 ELSE 31

\* Days from 1970-01-01 to the civil date y-m-d (proleptic Gregorian).
DaysFromCivil(y, m, d) ==
    LET yy  == IF m <= 2 THEN y - 1 ELSE y
        era == yy \div 400
        yoe == yy - era * 400
        mp  == IF m > 2 THEN m - 3 ELSE m + 9
        doy == (153 * mp + 2) \div 5 + d - 1
        doe == yoe * 365 + yoe \div 4 - yoe \div 100 + doy
    IN  era * 146097 + doe - 719468

\* The civil date of day number z: the inverse of DaysFromCivil.
CivilFromDays(z) ==
    LET zz  == z + 719468
        era == zz \div 146097
        doe == zz - era * 146097
        yoe == (doe - doe \div 1460 + doe \div 36524 - doe \div 146096) \div 365
        doy == doe - (365 * yoe + yoe \div 4 - yoe \div 100)
        mp  == (5 * doy + 2) \div 153
        d   == doy - (153 * mp + 2) \div 5 + 1
        m   == IF mp < 10 THEN mp + 3 ELSE mp - 9
        y   == yoe + era * 400 + (IF m <= 2 THEN 1 ELSE 0)
    IN  [y |-> y, m |-> m, d |-> d]

\* new Date(str).getTime() for a date-only ISO string: UTC midnight of that
\* calendar date; NaN for every string that is not a calendar date YYYY-MM-DD.
parseDateOnly(s) ==
    IF Len(s) # 10 THEN NaN
    ELSE IF s[5] # "-" \/ s[8] # "-" THEN NaN
    ELSE IF \E i \in {1, 2, 3, 4, 6, 7, 9, 10} : ~IsDigit(s[i]) THEN NaN
    ELSE LET y == DigitVal(s[1]) * 1000 + DigitVal(s[2]) * 100
                  + DigitVal(s[3]) * 10 + DigitVal(s[4])
             m == DigitVal(s[6]) * 10 + DigitVal(s[7])
             d == DigitVal(s[9]) * 10 + DigitVal(s[10])
         IN  IF m \notin 1..12 THEN NaN
             ELSE IF d \notin 1..DaysInMonth(y, m) THEN NaN
             ELSE DaysFromCivil(y, m, d) * DayLength

\* the end of the strings that toISOString writes for a whole hour
WholeHour == <<":", "0", "0", ":", "0", "0", ".", "0", "0", "0", "Z">>

\* new Date(str).getTime() for the two forms of string the program parses:
\* YYYY-MM-DD, and YYYY-MM-DDTHH:00:00.000Z as toISOString writes it
DateParse(s) ==
    IF Len(s) = 24
    THEN IF s[11] # "T" \/ SubSeq(s, 14, 24) # WholeHour
            \/ ~IsDigit(s[12]) \/ ~IsDigit(s[13])
         THEN NaN
         ELSE LET d == parseDateOnly(SubSeq(s, 1, 10))
                  h == DigitVal(s[12]) * 10 + DigitVal(s[13])
              IN  IF isNaN(d) \/ h > 23 THEN NaN ELSE d + h
    ELSE parseDateOnly(s)

\* today.setHours(0, 0, 0, 0): the instant of local midnight of the local day
\* that contains instant t.
setHoursMidnight(t, offset) == ((t + offset) \div DayLength) * DayLength - offset

\* nextWeek.setDate(today.getDate() + n): local midnight n calendar days later
\* (no daylight-saving change is modelled between the two days).
setDatePlus(t, n) == t + n * DayLength

\* the look-ahead of isTaskDueSoon, in days
DueSoonDays == 7

(***************************************************************************)
(* The date/status predicates                                              *)
(***************************************************************************)
\* calculateDaysBetween without the inclusive "+ 1"
calculateDaysBetween_Exclusive(start, end) ==
    IF start = <<>> \/ end = <<>> THEN 0
    ELSE LET s == DateParse(start)
             e == DateParse(end)
         IN  IF isNaN(s) \/ isNaN(e) THEN 0
             ELSE LET diffTime == IF e - s < 0 THEN s - e ELSE e - s
                  IN  (diffTime + DayLength - 1) \div DayLength

calculateDaysBetween(start, end) ==
    IF start = <<>> \/ end = <<>> THEN 0
    ELSE LET s == DateParse(start)
             e == DateParse(end)
         IN  IF isNaN(s) \/ isNaN(e) THEN 0
             ELSE LET diffTime == IF e - s < 0 THEN s - e ELSE e - s
                  IN  (diffTime + DayLength - 1) \div DayLength + 1

\* isTaskDelayed with the date rules tried before the Completed test
isTaskDelayed_CompletedLast(t, clock, offset) ==
    IF t.status = DELAYED THEN TRUE
    ELSE IF t.startDate = <<>> \/ t.endDate = <<>> THEN FALSE
    ELSE LET today == setHoursMidnight(clock, offset)
             start == DateParse(t.startDate)
             end   == DateParse(t.endDate)
         IN  IF isNaN(start) \/ isNaN(end) THEN FALSE
             ELSE IF end < today THEN TRUE
             ELSE IF t.status = NOT_STARTED /\ start < today THEN TRUE
             ELSE FALSE

\* isTaskDelayed without its two date guards and with the overdue test written
\* as !(end >= today), which is true of an Invalid Date
isTaskDelayed_NoDateGuard(t, clock, offset) ==
    IF t.status = DELAYED THEN TRUE
    ELSE IF t.status = COMPLETED THEN FALSE
    ELSE LET today == setHoursMidnight(clock, offset)
             start == DateParse(t.startDate)
             end   == DateParse(t.endDate)
         IN  IF ~(~isNaN(end) /\ end >= today) THEN TRUE
             ELSE IF t.status = NOT_STARTED /\ ~isNaN(start) /\ start < today THEN TRUE
             ELSE FALSE

isTaskDelayed(t, clock, offset) ==
    IF t.status = DELAYED THEN TRUE
    ELSE IF t.status = COMPLETED THEN FALSE
    ELSE IF t.startDate = <<>> \/ t.endDate = <<>> THEN FALSE
    ELSE LET today == setHoursMidnight(clock, offset)
             start == DateParse(t.startDate)
             end   == DateParse(t.endDate)
         IN  IF isNaN(start) \/ isNaN(end) THEN FALSE
             ELSE IF end < today THEN TRUE
             ELSE IF t.status = NOT_STARTED /\ start < today THEN TRUE
             ELSE FALSE

isTaskDueSoon(t, clock, offset) ==
    IF t.status = COMPLETED THEN FALSE
    ELSE IF t.endDate = <<>> THEN FALSE
    ELSE LET today    == setHoursMidnight(clock, offset)
             nextWeek == setDatePlus(today, DueSoonDays)
             end      == DateParse(t.endDate)
         IN  IF isNaN(end) THEN FALSE
             ELSE end >= today /\ end <= nextWeek

\* isTaskActiveToday with the clock normalized to midnight (UTC), the line the
\* code has commented out
isTaskActiveToday_Midnight(t, clock) ==
    IF t.startDate = <<>> \/ t.endDate = <<>> THEN FALSE
    ELSE LET today == setHoursMidnight(clock, 0)
             start == DateParse(t.startDate)
             end   == DateParse(t.endDate)
         IN  IF isNaN(start) \/ isNaN(end) THEN FALSE
             ELSE today >= start /\ today <= end

isTaskActiveToday(t, clock) ==
    IF t.startDate = <<>> \/ t.endDate = <<>> THEN FALSE
    ELSE LET today == clock
             start == DateParse(t.startDate)
             end   == DateParse(t.endDate)
         IN  IF isNaN(start) \/ isNaN(end) THEN FALSE
             ELSE today >= start /\ today <= end

(***************************************************************************)
(* Tasks                                                                   *)
(***************************************************************************)
\* TaskCategory.OTHER (OTHER is a reserved word of TLA+)
CATEGORY_OTHER == <<"O", "t", "h", "e", "r">>

VENUE == <<"V", "e", "n", "u", "e">>

\* Object.values(TaskCategory), in declaration order
TaskCategory == <<VENUE, CATEGORY_OTHER>>

\* two digits of a number below 100
Pad2(n) == <<Digits[(n \div 10) + 1], Digits[(n % 10) + 1]>>

Pad4(n) == Pad2(n \div 100) \o Pad2(n % 100)

\* Date.prototype.toISOString().split('T')[0] of the UTC midnight of day z
IsoDate(z) ==
    LET c == CivilFromDays(z)
    IN  Pad4(c.y) \o <<"-">> \o Pad2(c.m) \o <<"-">> \o Pad2(c.d)

NewTask(id, name, status, startDate, endDate) ==
    [id |-> id, name |-> name, category |-> CATEGORY_OTHER,
     startDate |-> startDate, endDate |-> endDate, status |-> status,
     initialCost |-> 0, actualCost |-> 0, dependencies |-> <<>>,
     notes |-> <<>>, important |-> FALSE]

(***************************************************************************)
(* The CSV codec                                                           *)
(***************************************************************************)
RECURSIVE join(_, _)
\* Array.prototype.join(sep)
join(parts, sep) ==
    IF parts = <<>> THEN <<>>
    ELSE IF Len(parts) = 1 THEN parts[1]
    ELSE parts[1] \o <<sep>> \o join(Tail(parts), sep)

RECURSIVE numberToString(_)
\* String(n) of a whole, non-negative amount
numberToString(n) ==
    IF n < 10 THEN <<Digits[n + 1]>>
    ELSE numberToString(n \div 10) \o <<Digits[(n % 10) + 1]>>

RECURSIVE readDigits(_, _, _)
\* the value of the digits of s from position i on, NaN when there is none
readDigits(s, i, acc) ==
    IF i <= Len(s) /\ IsDigit(s[i])
    THEN readDigits(s, i + 1, (IF isNaN(acc) THEN 0 ELSE acc * 10) + DigitVal(s[i]))
    ELSE acc

\* parseFloat(s) for whole, non-negative amounts: leading white space is
\* skipped, the longest prefix of digits is read, anything after it is ignored
parseFloat(s) ==
    LET skip == {i \in 1..Len(s) : s[i] \notin WhiteSpace}
        first == IF skip = {} THEN Len(s) + 1
                 ELSE CHOOSE i \in skip : \A j \in skip : i <= j
    IN  readDigits(s, first, NaN)

\* x || 0 for a number: NaN and 0 are falsy
orZero(x) == IF isNaN(x) THEN 0 ELSE x

RECURSIVE escapeQuotes(_)
\* s.replace(/"/g, '""')
escapeQuotes(s) ==
    IF s = <<>> THEN <<>>
    ELSE (IF Head(s) = "\"" THEN <<"\"", "\"">> ELSE <<Head(s)>>)
         \o escapeQuotes(Tail(s))

\* quoteField without the doubling of inner quotes: `"${s}"`
quoteField_Unescaped(s) == <<"\"">> \o s \o <<"\"">>

\* `"${s.replace(/"/g, '""')}"`
quoteField(s) == <<"\"">> \o escapeQuotes(s) \o <<"\"">>

headers ==
    <<<<"I", "D">>,
     <<"T", "a", "s", "k", " ", "N", "a", "m", "e">>,
     <<"C", "a", "t", "e", "g", "o", "r", "y">>,
     <<"S", "t", "a", "r", "t", " ", "D", "a", "t", "e">>,
     <<"E", "n", "d", " ", "D", "a", "t", "e">>,
     <<"S", "t", "a", "t", "u", "s">>,
     <<"I", "n", "i", "t", "i", "a", "l", " ", "C", "o", "s", "t">>,
     <<"A", "c", "t", "u", "a", "l", " ", "C", "o", "s", "t">>,
     <<"D", "e", "p", "e", "n", "d", "e", "n", "c", "i", "e", "s">>,
     <<"N", "o", "t", "e", "s">>,
     <<"I", "m", "p", "o", "r", "t", "a", "n", "t">>>>

\* one row of tasksToCSV, before it is joined
csvRow(t) ==
    <<t.id,
      quoteField(t.name),
      t.category,
      t.startDate,
      t.endDate,
      t.status,
      numberToString(t.initialCost),
      numberToString(t.actualCost),
      <<"\"">> \o join(t.dependencies, ",") \o <<"\"">>,
      quoteField(t.notes),
      IF t.important THEN <<"Y", "e", "s">> ELSE <<"N", "o">>>>

tasksToCSV(ts) ==
    join(<<join(headers, ",")>> \o [i \in 1..Len(ts) |-> join(csvRow(ts[i]), ",")],
         "\n")

\* the pieces of s between the occurrences of a separator: sep itself or,
\* with opt # "", opt followed by sep (the regular expression opt?sep)
splitOn(s, sep, opt) ==
    LET cuts     == {i \in 1..Len(s) : s[i] = sep}
        \* the k-th cut, 0 before the first and Len(s) + 1 after the last
        cut(k)   == IF k = 0 THEN 0
                    ELSE IF k > Cardinality(cuts) THEN Len(s) + 1
                    ELSE CHOOSE i \in cuts : Cardinality({j \in cuts : j < i}) = k - 1
        last(k)  == IF cut(k) <= Len(s) /\ cut(k) - 1 > cut(k - 1)
                       /\ s[cut(k) - 1] = opt
                    THEN cut(k) - 2
                    ELSE cut(k) - 1
    IN  [k \in 1..(Cardinality(cuts) + 1) |-> SubSeq(s, cut(k - 1) + 1, last(k))]

\* csvContent.split(/\r?\n/)
splitLines(csvContent) == splitOn(csvContent, "\n", "\r")

\* one iteration of the character walker of parseCSVToTasks, for loop index i:
\* w holds values, current, inQuote and charIndex; an index the body has
\* skipped (charIndex++ after an escaped quote) runs no iteration
walkStep(line, w, i) ==
    IF w.charIndex # i THEN w
    ELSE LET char == line[i]
         IN  IF char = "\""
             THEN IF w.inQuote /\ i + 1 <= Len(line) /\ line[i + 1] = "\""
                  THEN [w EXCEPT !.current = Append(w.current, "\""),
                                 !.charIndex = i + 2]
                  ELSE [w EXCEPT !.inQuote = ~w.inQuote, !.charIndex = i + 1]
             ELSE IF char = "," /\ ~w.inQuote
             THEN [w EXCEPT !.values = Append(w.values, w.current),
                            !.current = <<>>, !.charIndex = i + 1]
             ELSE [w EXCEPT !.current = Append(w.current, char),
                            !.charIndex = i + 1]

RECURSIVE walk(_, _, _, _)
\* the iterations lo..hi of the walker, in order; the range is split in halves
\* and the first half is evaluated before the second is entered, which keeps
\* the evaluation shallow (the test on charIndex is always true)
walk(line, w, lo, hi) ==
    IF lo > hi THEN w
    ELSE IF lo = hi THEN walkStep(line, w, lo)
    ELSE LET mid   == (lo + hi) \div 2
             first == walk(line, w, lo, mid)
         IN  IF first.charIndex > mid THEN walk(line, first, mid + 1, hi) ELSE first

\* a tokenizer that ignores quotes: line.split(',')
tokenize_NoQuotes(line) == splitOn(line, ",", "")

\* the values of one line: the walker from a clean state, then the final push
tokenize(line) ==
    LET w == walk(line,
                  [values |-> <<>>, current |-> <<>>, inQuote |-> FALSE,
                   charIndex |-> 1],
                  1, Len(line))
    IN  Append(w.values, w.current)

\* values[k] || '' (k counted from 0): '' when the column is missing or empty
col(values, k) == IF k + 1 <= Len(values) THEN values[k + 1] ELSE <<>>

\* a lookup that compares with the casing as it is: find(v => v === raw)
findIgnoreCase_Exact(E, raw) ==
    IF \E i \in 1..Len(E) : E[i] = raw THEN raw ELSE <<>>

\* Object.values(E).find(v => v.toLowerCase() === raw.toLowerCase()), <<>> for
\* undefined (no member of E is empty)
findIgnoreCase(E, raw) ==
    LET hits == {i \in 1..Len(E) : toLowerCase(E[i]) = toLowerCase(raw)}
    IN  IF hits = {} THEN <<>>
        ELSE E[CHOOSE i \in hits : \A j \in hits : i <= j]

\* rawCat.charAt(0).toUpperCase() + rawCat.slice(1)
capitalize(raw) ==
    IF raw = <<>> THEN <<>> ELSE <<toUpperCaseChar(raw[1])>> \o Tail(raw)

UNTITLED_TASK == <<"U", "n", "t", "i", "t", "l", "e", "d", " ", "T", "a", "s", "k">>

\* the task parseCSVToTasks pushes for the values of one line; uuid is what
\* crypto.randomUUID() returns if it is called
rowToTask(values, uuid) ==
    LET rawCat        == trim(col(values, 2))
        matchedCat    == findIgnoreCase(TaskCategory, rawCat)
        finalCat      == IF matchedCat # <<>> THEN matchedCat
                         ELSE IF capitalize(rawCat) # <<>> THEN capitalize(rawCat)
                         ELSE CATEGORY_OTHER
        rawStatus     == trim(col(values, 5))
        matchedStatus == findIgnoreCase(TaskStatus, rawStatus)
        finalStat     == IF matchedStatus # <<>> THEN matchedStatus ELSE NOT_STARTED
        depsRaw       == col(values, 8)
        depsSplit     == splitOn(depsRaw, ",", "")
        depsTrimmed   == [i \in 1..Len(depsSplit) |-> trim(depsSplit[i])]
        dependencies  == SelectSeq(depsTrimmed, LAMBDA d : Len(d) > 0)
        importantRaw  == toLowerCase(trim(col(values, 10)))
        isImportant   == importantRaw = <<"y", "e", "s">>
                         \/ importantRaw = <<"t", "r", "u", "e">>
    IN  [id           |-> IF trim(col(values, 0)) # <<>> THEN trim(col(values, 0))
                          ELSE uuid,
         name         |-> trim(IF col(values, 1) # <<>> THEN col(values, 1)
                               ELSE UNTITLED_TASK),
         category     |-> finalCat,
         startDate    |-> trim(col(values, 3)),
         endDate      |-> trim(col(values, 4)),
         status       |-> finalStat,
         initialCost  |-> orZero(parseFloat(col(values, 6))),
         actualCost   |-> orZero(parseFloat(col(values, 7))),
         dependencies |-> dependencies,
         notes        |-> trim(col(values, 9)),
         important    |-> isImportant]

\* the least number of columns of a row that is kept
MinColumns == 5

RECURSIVE parseLines(_, _, _, _)
\* the loop of parseCSVToTasks from line i on (lines are counted from 1 here,
\* so the header is line 1); uuids are the identifiers crypto.randomUUID()
\* returns, in the order of its calls
parseLines(lines, i, acc, uuids) ==
    IF i > Len(lines) THEN acc
    ELSE LET line   == trim(lines[i])
             values == tokenize(line)
         IN  IF line = <<>> THEN parseLines(lines, i + 1, acc, uuids)
             ELSE IF Len(values) < MinColumns THEN parseLines(lines, i + 1, acc, uuids)
             ELSE IF trim(col(values, 0)) # <<>>
             THEN parseLines(lines, i + 1, Append(acc, rowToTask(values, <<>>)), uuids)
             ELSE parseLines(lines, i + 1, Append(acc, rowToTask(values, Head(uuids))),
                             Tail(uuids))

parseCSVToTasks(csvContent, uuids) == parseLines(splitLines(csvContent), 2, <<>>, uuids)

(***************************************************************************)
(* Inputs of the date predicates                                           *)
(***************************************************************************)
\* the dates of the tasks are FirstDay, FirstDay + 1, ..., FirstDay + MaxDayOffset
MaxDayOffset == 10

\* 2024-02-25: the range crosses the leap day and a month boundary
FirstDay == DaysFromCivil(2024, 2, 25)

\* the clock reads a time of day of the third day of the range (UTC)
ClockDay == FirstDay + 2

ClockHours == {0, 12, 23}

Clocks == {ClockDay * DayLength + h : h \in ClockHours}

\* local UTC offsets, in hours: Pago Pago, New York, London, Moscow, Kiritimati
TzOffsets == {-11, -5, 0, 3, 14}

NotADate == <<"T", "B", "D">>

ValidDates == {IsoDate(FirstDay + k) : k \in 0..MaxDayOffset}

DateStrings == ValidDates \cup {<<>>, NotADate}

Statuses == {TaskStatus[i] : i \in 1..Len(TaskStatus)}

\* no toast is shown: notification is null
NoNotification == [message |-> <<>>, type |-> "none"]

\* the application before it is mounted: the initial values of useState in App,
\* TaskForm and CsvManager, nothing in flight
AppIdle ==
    /\ isLoading = TRUE
    /\ isSaving = FALSE
    /\ notification = NoNotification
    /\ loadError = FALSE
    /\ isModalOpen = FALSE
    /\ formData = NewTask(<<>>, <<>>, NOT_STARTED, <<>>, <<>>)
    /\ error = ""
    /\ isConfirmOpen = FALSE
    /\ taskToDeleteId = <<>>
    /\ localStatus = "idle"
    /\ statusMsg = ""
    /\ fileDialog = FALSE
    /\ pending = {}
    /\ uuidCount = 0
    /\ opCount = 0
    /\ saveCount = 0
    /\ drilldownCategory = <<>>

NoResult == [op |-> "none", val |-> FALSE]

InitDates ==
    /\ \E st \in Statuses, sd \in DateStrings, ed \in DateStrings :
          task = NewTask(<<"1">>, <<"a">>, st, sd, ed)
    /\ now \in Clocks
    /\ tz \in TzOffsets
    /\ result = NoResult
    /\ tasks = <<>>
    /\ csv = <<>>
    /\ parsed = <<>>
    /\ pc = "dates"
    /\ AppIdle

CallIsTaskDelayed ==
    /\ pc = "dates"
    /\ result' = [op |-> "isTaskDelayed", val |-> isTaskDelayed(task, now, tz)]
    /\ UNCHANGED <<task, now, tz, tasks, csv, parsed, pc, appVars>>

CallIsTaskDueSoon ==
    /\ pc = "dates"
    /\ result' = [op |-> "isTaskDueSoon", val |-> isTaskDueSoon(task, now, tz)]
    /\ UNCHANGED <<task, now, tz, tasks, csv, parsed, pc, appVars>>

CallIsTaskActiveToday ==
    /\ pc = "dates"
    /\ result' = [op |-> "isTaskActiveToday", val |-> isTaskActiveToday(task, now)]
    /\ UNCHANGED <<task, now, tz, tasks, csv, parsed, pc, appVars>>

CallCalculateDaysBetween ==
    /\ pc = "dates"
    /\ result' = [op |-> "calculateDaysBetween",
                  val |-> calculateDaysBetween(task.startDate, task.endDate)]
    /\ UNCHANGED <<task, now, tz, tasks, csv, parsed, pc, appVars>>

NextDates ==
    \/ CallIsTaskDelayed
    \/ CallIsTaskDueSoon
    \/ CallIsTaskActiveToday
    \/ CallCalculateDaysBetween

SpecDates == InitDates /\ [][NextDates]_vars

(***************************************************************************)
(* Export and re-import of a task list                                     *)
(***************************************************************************)
\* the longest task name of the exported lists
MaxNameLen == 2

\* the characters of names, notes and free-form categories: a letter, the
\* separator, the quote, a space and a line break
FieldChars == {"a", ",", "\"", " ", "\n"}

Strings(alphabet, n) == UNION {[1..k -> alphabet] : k \in 0..n}

Names == Strings(FieldChars, MaxNameLen)

NotesTexts == Strings(FieldChars, 1)

Categories ==
    {VENUE, <<"v", "e", "n", "u", "e">>, <<"d", "j">>} \cup Strings(FieldChars, 1)

\* crypto.randomUUID(), n-th call: a version 4 UUID in lower case, a new one at
\* every call
randomUUID(n) ==
    <<"f", "f", "f", "f", "f", "f", "f", "f", "-", "0", "0", "0", "0", "-",
      "4", "0", "0", "0", "-", "8", "0", "0", "0", "-", "0", "0", "0", "0",
      "0", "0", "0", "0", "0", "0", "0", Digits[n + 1]>>

\* what crypto.randomUUID() returns, call after call
Uuids == [k \in 1..9 |-> randomUUID(k)]

\* the fields of a task other than name, category and notes
Profiles ==
    {[id |-> <<"1">>, startDate |-> <<>>, endDate |-> <<>>, status |-> NOT_STARTED,
      initialCost |-> 0, actualCost |-> 0, dependencies |-> <<>>,
      important |-> FALSE],
     [id |-> <<"1">>, startDate |-> IsoDate(FirstDay), endDate |-> IsoDate(FirstDay + 4),
      status |-> IN_PROGRESS, initialCost |-> 1200, actualCost |-> 75,
      dependencies |-> << <<"2">>, <<"3", "0">> >>, important |-> TRUE],
     [id |-> <<"1">>, startDate |-> IsoDate(FirstDay), endDate |-> <<>>,
      status |-> COMPLETED, initialCost |-> 40, actualCost |-> 0,
      dependencies |-> << <<"2">> >>, important |-> FALSE]}

TaskOf(p, name, category, notes) ==
    [id |-> p.id, name |-> name, category |-> category,
     startDate |-> p.startDate, endDate |-> p.endDate, status |-> p.status,
     initialCost |-> p.initialCost, actualCost |-> p.actualCost,
     dependencies |-> p.dependencies, notes |-> notes, important |-> p.important]

FirstTasks ==
    {TaskOf(p, n, c, x) : p \in Profiles, n \in Names, c \in Categories, x \in NotesTexts}

\* a second task, with an id of its own
SecondTasks ==
    {[NewTask(<<"2">>, n, DELAYED, <<>>, IsoDate(FirstDay + 1))
        EXCEPT !.notes = x, !.important = TRUE, !.actualCost = 9] :
        n \in {<<"b">>, <<"\"", "b">>}, x \in {<<>>, <<"a", ",">>}}

PlainFirstTasks ==
    {TaskOf(p, n, CATEGORY_OTHER, <<>>) : p \in Profiles, n \in Names}

TaskLists ==
    {<<>>} \cup {<<t>> : t \in FirstTasks}
           \cup {<<t, u>> : t \in PlainFirstTasks, u \in SecondTasks}

InitCsv ==
    /\ tasks \in TaskLists
    /\ csv = <<>>
    /\ parsed = <<>>
    /\ pc = "ready"
    /\ task = NewTask(<<"1">>, <<"a">>, NOT_STARTED, <<>>, <<>>)
    /\ now = ClockDay * DayLength
    /\ tz = 0
    /\ result = NoResult
    /\ AppIdle

\* the Export button: handleExport calls tasksToCSV(tasks)
Export ==
    /\ pc = "ready"
    /\ csv' = tasksToCSV(tasks)
    /\ pc' = "exported"
    /\ UNCHANGED <<task, now, tz, result, tasks, parsed, appVars>>

\* the exported file is read back: parseCSVToTasks(text)
Import ==
    /\ pc = "exported"
    /\ parsed' = parseCSVToTasks(csv, Uuids)
    /\ pc' = "imported"
    /\ UNCHANGED <<task, now, tz, result, tasks, csv, appVars>>

NextCsv == Export \/ Import

SpecCsv == InitCsv /\ [][NextCsv]_vars

(***************************************************************************)
(* Calendar reading of the dates, used to state the properties             *)
(***************************************************************************)
IsCalendarDate(s) == s \in ValidDates

\* a is an earlier calendar date than b (both YYYY-MM-DD): the first digit in
\* which they differ is smaller in a
DateBefore(a, b) ==
    \E i \in 1..10 :
        /\ \A j \in 1..(i - 1) : a[j] = b[j]
        /\ a[i] # b[i]
        /\ DigitVal(a[i]) < DigitVal(b[i])

\* the local calendar date n days after the local date the clock shows
LocalDate(n) == IsoDate(((now + tz) \div DayLength) + n)

\* the instant of UTC midnight of a calendar date of the range
InstantOf(s) ==
    DayLength * (CHOOSE z \in FirstDay..(FirstDay + MaxDayOffset) : IsoDate(z) = s)

CivilOf(s) ==
    [y |-> DigitVal(s[1]) * 1000 + DigitVal(s[2]) * 100 + DigitVal(s[3]) * 10
           + DigitVal(s[4]),
     m |-> DigitVal(s[6]) * 10 + DigitVal(s[7]),
     d |-> DigitVal(s[9]) * 10 + DigitVal(s[10])]

\* the calendar day after c
NextCivil(c) ==
    IF c.d < DaysInMonth(c.y, c.m) THEN [c EXCEPT !.d = c.d + 1]
    ELSE IF c.m < 12 THEN [y |-> c.y, m |-> c.m + 1, d |-> 1]
    ELSE [y |-> c.y + 1, m |-> 1, d |-> 1]

RECURSIVE DaysApart(_, _)
\* how many times the calendar is advanced by a day to get from a to b (a <= b)
DaysApart(a, b) == IF a = b THEN 0 ELSE 1 + DaysApart(NextCivil(a), b)

\* the absolute day difference of two calendar dates
DayDifference(s, t) ==
    IF DateBefore(t, s) THEN DaysApart(CivilOf(t), CivilOf(s))
    ELSE DaysApart(CivilOf(s), CivilOf(t))

DatesPresentOrEmpty ==
    /\ task.startDate \in ValidDates \cup {<<>>}
    /\ task.endDate \in ValidDates \cup {<<>>}

(***************************************************************************)
(* Properties of the date/status predicates (SpecDates)                    *)
(***************************************************************************)
\* C3: for every task whose dates are each present or empty, isTaskDelayed is
\* true exactly when status is Delayed, or status is not Completed and endDate
\* is present and strictly before today, or status is NotStarted and startDate
\* is present and strictly before today.
C3_DelayedExactlyByRule ==
    (result.op = "isTaskDelayed" /\ DatesPresentOrEmpty) =>
        (result.val <=>
            \/ task.status = DELAYED
            \/ /\ task.status # COMPLETED
               /\ task.endDate # <<>>
               /\ DateBefore(task.endDate, LocalDate(0))
            \/ /\ task.status = NOT_STARTED
               /\ task.startDate # <<>>
               /\ DateBefore(task.startDate, LocalDate(0)))

\* C4: a task whose endDate is yesterday and whose status is InProgress is
\* delayed and not due soon, for every startDate including the empty one.
C4_OverdueInProgress ==
    (task.status = IN_PROGRESS /\ task.endDate = LocalDate(-1)
        /\ DatesPresentOrEmpty) =>
        /\ result.op = "isTaskDelayed" => result.val = TRUE
        /\ result.op = "isTaskDueSoon" => result.val = FALSE

\* C5: a Completed task is never classified delayed, whatever its dates and
\* whatever today is.
C5_CompletedNeverDelayed ==
    (result.op = "isTaskDelayed" /\ task.status = COMPLETED) => result.val = FALSE

\* a Completed task whose end date passed was classified
C5_Witness ==
    /\ result.op = "isTaskDelayed"
    /\ task.status = COMPLETED
    /\ IsCalendarDate(task.startDate)
    /\ IsCalendarDate(task.endDate)
    /\ DateBefore(task.endDate, LocalDate(0))
    /\ result.val = FALSE

C7_DueSoonExactlyInWindow ==
    result.op = "isTaskDueSoon" =>
        (result.val <=>
            /\ task.status # COMPLETED
            /\ IsCalendarDate(task.endDate)
            /\ ~DateBefore(task.endDate, LocalDate(0))
            /\ ~DateBefore(LocalDate(DueSoonDays), task.endDate))

\* C8: for every local UTC offset, a non-completed task whose endDate is
\* today's local calendar date is due soon and is not made delayed by the
\* end-date rule (an InProgress task with a start date can be delayed by no
\* other rule).
C8_DueTodayInEveryZone ==
    (task.status # COMPLETED /\ task.endDate = LocalDate(0)) =>
        /\ result.op = "isTaskDueSoon" => result.val = TRUE
        /\ (result.op = "isTaskDelayed" /\ task.status = IN_PROGRESS
                /\ IsCalendarDate(task.startDate)) => result.val = FALSE

\* C9: isTaskActiveToday is true exactly when both dates are present and
\* parseable and the current instant (not normalized to midnight) is at or
\* after the instant of startDate and at or before the instant of endDate.
C9_ActiveTodayExactly ==
    result.op = "isTaskActiveToday" =>
        (result.val <=>
            /\ IsCalendarDate(task.startDate)
            /\ IsCalendarDate(task.endDate)
            /\ InstantOf(task.startDate) <= now
            /\ now <= InstantOf(task.endDate))

\* a task ending today at 00:00Z is found no longer active later that day
C9_Witness ==
    /\ result.op = "isTaskActiveToday"
    /\ IsCalendarDate(task.startDate)
    /\ task.endDate = IsoDate(now \div DayLength)
    /\ DateBefore(task.startDate, task.endDate)
    /\ now % DayLength # 0
    /\ result.val = FALSE

\* C10: calculateDaysBetween(start, end) is the absolute day difference of the
\* two calendar dates plus 1, in either order, and 0 when either argument is
\* empty or unparseable.
C10_DaysBetweenInclusive ==
    result.op = "calculateDaysBetween" =>
        result.val =
            IF IsCalendarDate(task.startDate) /\ IsCalendarDate(task.endDate)
            THEN DayDifference(task.startDate, task.endDate) + 1
            ELSE 0

\* start four days after end: the result is 5
C10_Witness ==
    /\ result.op = "calculateDaysBetween"
    /\ IsCalendarDate(task.startDate)
    /\ IsCalendarDate(task.endDate)
    /\ DateBefore(task.endDate, task.startDate)
    /\ result.val = 5

(***************************************************************************)
(* Properties of the CSV codec (SpecCsv)                                   *)
(***************************************************************************)
Blank(s) == trim(s) = <<>>

\* r is t up to trimming, category/status casing and the defaults of blank
\* fields
SameUpToNormalization(t, r) ==
    /\ r.id = trim(t.id)
    /\ r.name = trim(t.name) \/ (Blank(t.name) /\ r.name = UNTITLED_TASK)
    /\ \/ toLowerCase(r.category) = toLowerCase(trim(t.category))
       \/ Blank(t.category) /\ r.category = CATEGORY_OTHER
    /\ r.startDate = trim(t.startDate)
    /\ r.endDate = trim(t.endDate)
    /\ toLowerCase(r.status) = toLowerCase(t.status)
    /\ r.initialCost = t.initialCost
    /\ r.actualCost = t.actualCost
    /\ r.dependencies = t.dependencies
    /\ r.notes = trim(t.notes)
    /\ r.important = t.important

Contains(s, chars) == \E i \in 1..Len(s) : s[i] \in chars

\* C1: parseCSVToTasks(tasksToCSV(tasks)) has the length of tasks and its i-th
\* task equals the i-th original in every field, up to trimming, category and
\* status casing and default-filling of blank fields, for names, notes and
\* categories that may contain commas, double quotes, spaces and line breaks.
C1_RoundTrip ==
    pc = "imported" =>
        /\ Len(parsed) = Len(tasks)
        /\ \A i \in 1..Len(tasks) : SameUpToNormalization(tasks[i], parsed[i])

\* s with every double quote written twice
Doubled(s) ==
    LET before(i) == Cardinality({j \in 1..(i - 1) : s[j] = "\""})
    IN  [k \in 1..(Len(s) + before(Len(s) + 1)) |->
            s[CHOOSE i \in 1..Len(s) :
                \/ i + before(i) = k
                \/ s[i] = "\"" /\ i + before(i) + 1 = k]]

HasPrefix(s, p) == Len(p) <= Len(s) /\ SubSeq(s, 1, Len(p)) = p

\* the names C2 speaks of: letters, commas and double quotes only
QuotableName(s) == \A i \in 1..Len(s) : s[i] \in {"a", "b", ",", "\""}

\* every task fills one line, and no category disturbs the columns
PlainRows ==
    \A i \in 1..Len(tasks) :
        /\ ~Contains(tasks[i].name, {"\n"})
        /\ ~Contains(tasks[i].notes, {"\n"})
        /\ ~Contains(tasks[i].category, {"\n", ",", "\""})

\* the name of task i is emitted quoted with its quotes doubled, and read back
\* as it was
NameSurvives(i) ==
    /\ HasPrefix(splitLines(csv)[i + 1],
                 tasks[i].id \o <<",", "\"">> \o Doubled(tasks[i].name)
                     \o <<"\"", ",">>)
    /\ pc = "imported" => (i <= Len(parsed) /\ parsed[i].name = tasks[i].name)

MaxLines == 3

\* the data lines the files are made of
LinePool ==
    {
     \* six columns, a known category in lower case
     <<"1", ",", "a", ",", "v", "e", "n", "u", "e", ",", ",", ",", "C", "o",
       "m", "p", "l", "e", "t", "e", "d">>,
     \* five columns, a free-form category
     <<"2", ",", " ", "b", " ", ",", "d", "j", " ", "s", "e", "t", ",", "2",
       "0", "2", "4", "-", "0", "2", "-", "2", "5", ",", "2", "0", "2", "4",
       "-", "0", "2", "-", "2", "6">>,
     \* three columns
     <<"3", ",", "c", ",", "d">>,
     \* three columns, commas inside quotes
     <<"4", ",", "\"", "a", ",", "b", ",", "c", "\"", ",", "x">>,
     \* five empty columns
     <<",", ",", ",", ",">>,
     \* a name and a category of white space
     <<"5", ",", " ", " ", ",", " ", ",", ",", "x">>,
     \* an empty line
     <<>>,
     \* a line of white space
     <<" ", " ">>,
     \* eleven columns, a carriage return at the end
     <<"6", ",", "\"", "s", "a", "y", " ", "\"", "\"", "h", "i", "\"", "\"",
       "\"", ",", "O", "T", "H", "E", "R", ",", ",", ",", "i", "n", " ", "p",
       "r", "o", "g", "r", "e", "s", "s", ",", "1", "2", ",", "x", ",", "\"",
       "7", ",", " ", "8", "\"", ",", "n", ",", "Y", "E", "S", "\r">>
    }

\* the files: the header line, then up to MaxLines lines of the pool
RawFiles ==
    {join(<<join(headers, ",")>> \o ls, "\n") :
        ls \in UNION {[1..n -> LinePool] : n \in 0..MaxLines}}

InitParse ==
    /\ csv \in RawFiles
    /\ parsed = <<>>
    /\ pc = "selected"
    /\ tasks = <<>>
    /\ task = NewTask(<<"1">>, <<"a">>, NOT_STARTED, <<>>, <<>>)
    /\ now = ClockDay * DayLength
    /\ tz = 0
    /\ result = NoResult
    /\ AppIdle

\* the text of the selected file is parsed: parseCSVToTasks(text)
Parse ==
    /\ pc = "selected"
    /\ parsed' = parseCSVToTasks(csv, Uuids)
    /\ pc' = "parsed"
    /\ UNCHANGED <<task, now, tz, result, tasks, csv, appVars>>

NextParse == Parse

SpecParse == InitParse /\ [][NextParse]_vars

(***************************************************************************)
(* Properties of the parser (SpecParse)                                    *)
(***************************************************************************)
\* the fields of a line: one more than its commas outside quotes, a comma
\* being outside quotes when an even number of quotes stands before it
FieldCount(line) ==
    1 + Cardinality({i \in 1..Len(line) :
            /\ line[i] = ","
            /\ Cardinality({j \in 1..(i - 1) : line[j] = "\""}) % 2 = 0})

\* the data lines of the file, the header left out
DataLines == Tail(splitLines(csv))

WellFormed(line) == ~Blank(line) /\ FieldCount(trim(line)) >= 5

Malformed(line) == ~Blank(line) /\ FieldCount(trim(line)) < 5

WellFormedLines == SelectSeq(DataLines, WellFormed)

\* the id column of a line whose id holds no quote: the text before the first
\* comma
IdColumn(line) ==
    LET l      == trim(line)
        commas == {i \in 1..Len(l) : l[i] = ","}
    IN  trim(SubSeq(l, 1, (CHOOSE i \in commas : \A j \in commas : i <= j) - 1))

\* C11: parseCSVToTasks never fails on a malformed row: a non-blank data line
\* of fewer than 5 fields gives no task, one of 5 or more fields gives exactly
\* one, and the tasks of the well-formed lines come in input order whatever
\* malformed lines stand between them.
C11_MalformedRowsDropped ==
    pc = "parsed" =>
        /\ Len(parsed) = Len(WellFormedLines)
        /\ Len(parsed) =
               Len(DataLines) - Cardinality({i \in 1..Len(DataLines) :
                                   Blank(DataLines[i]) \/ Malformed(DataLines[i])})
        /\ \A k \in 1..Len(parsed) :
               \/ parsed[k].id = IdColumn(WellFormedLines[k])
               \/ /\ IdColumn(WellFormedLines[k]) = <<>>
                  /\ \E u \in 1..Len(Uuids) : parsed[k].id = Uuids[u]

\* a malformed line between two well-formed ones
C11_Witness ==
    /\ pc = "parsed"
    /\ Len(DataLines) = 3
    /\ WellFormed(DataLines[1])
    /\ Malformed(DataLines[2])
    /\ FieldCount(DataLines[2]) = 3
    /\ Contains(DataLines[2], {"\""})
    /\ WellFormed(DataLines[3])
    /\ Len(parsed) = 2
    /\ parsed[1].id = <<"1">>
    /\ parsed[2].id = <<"2">>

\* the columns of the k-th well-formed line
Columns(k) == tokenize(trim(WellFormedLines[k]))

\* the category the claim gives a trimmed column
NormalCategory(raw) ==
    IF \E i \in 1..Len(TaskCategory) : toLowerCase(TaskCategory[i]) = toLowerCase(raw)
    THEN TaskCategory[CHOOSE i \in 1..Len(TaskCategory) :
                          toLowerCase(TaskCategory[i]) = toLowerCase(raw)]
    ELSE IF raw = <<>> THEN CATEGORY_OTHER
    ELSE <<toUpperCaseChar(raw[1])>> \o SubSeq(raw, 2, Len(raw))

\* C16: the category of every parsed row is the known category in its
\* canonical casing when the trimmed column matches one whatever the case,
\* else the trimmed column with its first character in upper case, and
\* "Other" when the column is blank; it is never empty.
C16_CategoryNormalized ==
    (pc = "parsed" /\ Len(parsed) = Len(WellFormedLines)) =>
        \A k \in 1..Len(parsed) :
            /\ parsed[k].category = NormalCategory(trim(Columns(k)[3]))
            /\ parsed[k].category # <<>>

\* a known category matched in another casing, a free-form one capitalized and
\* a blank one defaulted, in one file
C16_Witness ==
    /\ pc = "parsed"
    /\ Len(parsed) = 3
    /\ Len(WellFormedLines) = 3
    /\ trim(Columns(1)[3]) = <<"v", "e", "n", "u", "e">>
    /\ parsed[1].category = VENUE
    /\ trim(Columns(2)[3]) = <<"d", "j", " ", "s", "e", "t">>
    /\ parsed[2].category = <<"D", "j", " ", "s", "e", "t">>
    /\ Blank(Columns(3)[3])
    /\ parsed[3].category = CATEGORY_OTHER

\* C17: the name of every parsed row is the trimmed name column, or "Untitled
\* Task" when that column is blank (empty or white space only); it is never
\* empty.
C17_NameOrUntitled ==
    (pc = "parsed" /\ Len(parsed) = Len(WellFormedLines)) =>
        \A k \in 1..Len(parsed) :
            /\ parsed[k].name = IF Blank(Columns(k)[2]) THEN UNTITLED_TASK
                                ELSE trim(Columns(k)[2])
            /\ parsed[k].name # <<>>

(***************************************************************************)
(* The application: App, TaskForm and CsvManager                           *)
(***************************************************************************)
\* the most operations the user starts in one run: form saves, status changes,
\* deletes and imports
MaxOps == 2

\* the most submissions of the task form that reach handleSaveTask in one run
MaxSaves == 1

\* the most calls of crypto.randomUUID() in one run
MaxUuids == 4

HexDigits ==
    {Digits[i] : i \in 1..10} \cup {"a", "b", "c", "d", "e", "f"}
                              \cup {"A", "B", "C", "D", "E", "F"}

\* uuidRegex.test(id): 8-4-4-4-12 hexadecimal digits, in either case
isUUID(id) ==
    /\ Len(id) = 36
    /\ \A i \in 1..36 :
          IF i \in {9, 14, 19, 24} THEN id[i] = "-" ELSE id[i] \in HexDigits

\* the ids of tasks that were created earlier, and of rows of foreign files
StoredId(k) ==
    <<"a", "a", "a", "a", "a", "a", "a", "a", "-", "0", "0", "0", "0", "-",
      "4", "0", "0", "0", "-", "8", "0", "0", "0", "-", "0", "0", "0", "0",
      "0", "0", "0", "0", "0", "0", "0", Digits[k + 1]>>

\* a task of the store or of a file
Stored(id, name, status, deps) ==
    [NewTask(id, name, status, <<>>, <<>>) EXCEPT !.dependencies = deps]

\* what taskService.fetchTasks() may return
Stores ==
    {<<Stored(StoredId(1), <<"a">>, NOT_STARTED, <<>>),
       Stored(StoredId(2), <<"b">>, IN_PROGRESS, <<StoredId(1)>>)>>,
     <<Stored(StoredId(3), <<"c">>, NOT_STARTED, <<StoredId(3)>>)>>}

\* the files the user may select: two rows with the same plain id, the second
\* depending on that id; a row with the id of a stored task and two rows with
\* one and the same UUID; a file without a valid row
FilePlainIds ==
    tasksToCSV(<<Stored(<<"1">>, <<"x">>, NOT_STARTED, <<>>),
                 Stored(<<"1">>, <<"y">>, NOT_STARTED, << <<"1">> >>)>>)

FileUuids ==
    tasksToCSV(<<Stored(StoredId(1), <<"x">>, COMPLETED, <<>>),
                 Stored(StoredId(8), <<"y">>, NOT_STARTED, <<>>),
                 Stored(StoredId(8), <<"z">>, DELAYED, <<StoredId(1)>>)>>)

FileNoTasks == join(<<join(headers, ","), <<"3", ",", "c", ",", "d">>>>, "\n")

\* a file of no characters
FileEmpty == <<>>

Files == <<FilePlainIds, FileUuids, FileNoTasks, FileEmpty>>

\* an operation in flight: its number (the least one that no operation in
\* flight has), its kind and what its handler captured when it started; an
\* import keeps its number from the file read to the sync.  before, touched
\* and persisted are history of a status change: the collection when the
\* change was requested, whether another operation changed the collection
\* since, and the task of the same id that saveTask has last written since
NewOp(kind) ==
    [n |-> CHOOSE k \in 1..(Cardinality(pending) + 1) :
              /\ \A o \in pending : o.n # k
              /\ \A j \in 1..(k - 1) : \E o \in pending : o.n = j,
     kind |-> kind, task |-> <<>>, updated |-> <<>>,
     id |-> <<>>, isNew |-> FALSE, newTasks |-> <<>>, list |-> <<>>,
     existing |-> <<>>,
     count |-> 0, file |-> 0, before |-> <<>>, touched |-> FALSE,
     persisted |-> <<>>]

\* the operations ops after the collection went from old to new
touch(ops, old, new) ==
    IF old = new THEN ops
    ELSE {IF o.kind = "status" THEN [o EXCEPT !.touched = TRUE] ELSE o : o \in ops}

\* the operations ops after saveTask has written the task t
written(ops, t) ==
    {IF o.kind = "status" /\ o.id = t.id THEN [o EXCEPT !.persisted = t] ELSE o :
        o \in ops}

\* prev.map(t => t.id === id ? u : t)
replaceById(prev, id, u) == [i \in 1..Len(prev) |-> IF prev[i].id = id THEN u ELSE prev[i]]

\* tasks.some(t => t.id === id)
someId(ts, id) == \E i \in 1..Len(ts) : ts[i].id = id

\* handleImport, first pass: does the row get a new id
needsNewId(t, existing) == ~isUUID(t.id) \/ someId(existing, t.id)

\* handleImport, first pass: every row that is no UUID or repeats an existing
\* id gets the next random UUID; count calls of randomUUID were made before
tasksWithValidIds(newTasks, existing, count) ==
    [i \in 1..Len(newTasks) |->
        IF needsNewId(newTasks[i], existing)
        THEN [newTasks[i] EXCEPT !.id =
                 randomUUID(count + Cardinality({j \in 1..i :
                                needsNewId(newTasks[j], existing)}))]
        ELSE newTasks[i]]

\* a second pass that leaves the dependencies as the file wrote them
idMapGet_AsWritten(newTasks, existing, count, depId) == depId

\* idMap.get(depId) || depId: the entry of a later row overwrites an earlier
\* one
idMapGet(newTasks, existing, count, depId) ==
    LET rows == {j \in 1..Len(newTasks) :
                    needsNewId(newTasks[j], existing) /\ newTasks[j].id = depId}
    IN  IF rows = {} THEN depId
        ELSE tasksWithValidIds(newTasks, existing, count)[
                 CHOOSE j \in rows : \A k \in rows : k <= j].id

\* handleImport, second pass: dependencies follow the new ids, and those that
\* point nowhere are dropped
finalTasks(newTasks, existing, count) ==
    LET valid == tasksWithValidIds(newTasks, existing, count)
    IN  [i \in 1..Len(valid) |->
            [valid[i] EXCEPT !.dependencies =
                SelectSeq([d \in 1..Len(valid[i].dependencies) |->
                              idMapGet(newTasks, existing, count,
                                       valid[i].dependencies[d])],
                          LAMBDA depId : someId(valid, depId)
                                             \/ someId(existing, depId))]]

\* extractDate of TaskForm: '' for a missing or unparseable date, else the
\* date as YYYY-MM-DD
extractDate(d) ==
    IF d = <<>> \/ isNaN(DateParse(d)) THEN <<>>
    ELSE IsoDate(DateParse(d) \div DayLength)

\* the form of a closed modal.  What formData and error hold while the modal
\* is closed is never read: the effect of TaskForm overwrites both when the
\* modal opens again, so the model clears them when it closes
ClosedForm == NewTask(<<>>, <<>>, NOT_STARTED, <<>>, <<>>)

\* the variables of the helper runs and of the Gantt chart, which the handlers
\* of App, TaskForm and CsvManager leave alone
helperVars == <<task, now, tz, result, csv, parsed, drilldownCategory>>

InitApp ==
    /\ tasks = <<>>
    /\ AppIdle
    /\ pc = "mounting"
    /\ task = NewTask(<<"1">>, <<"a">>, NOT_STARTED, <<>>, <<>>)
    /\ now = ClockDay * DayLength
    /\ tz = 0
    /\ result = NoResult
    /\ csv = <<>>
    /\ parsed = <<>>

\* the user can reach the views: the fetch has settled and no modal, dialog or
\* file chooser is in the way
Free == pc = "mounted" /\ ~isModalOpen /\ ~isConfirmOpen /\ ~fileDialog

\* loadTasks: fetchTasks resolves with the content of the store
LoadTasksResolve ==
    /\ pc = "mounting"
    /\ \E store \in Stores : tasks' = store
    /\ isLoading' = FALSE
    /\ loadError' = FALSE
    /\ pc' = "mounted"
    /\ UNCHANGED <<helperVars, isSaving, notification, isModalOpen, formData, error,
                   isConfirmOpen, taskToDeleteId, localStatus, statusMsg, fileDialog, pending,
                   uuidCount, opCount, saveCount>>

\* loadTasks: fetchTasks rejects
LoadTasksReject ==
    /\ pc = "mounting"
    /\ isLoading' = FALSE
    /\ loadError' = TRUE
    /\ pc' = "mounted"
    /\ UNCHANGED <<helperVars, tasks, isSaving, notification, isModalOpen, formData,
                   error, isConfirmOpen, taskToDeleteId, localStatus, statusMsg, fileDialog,
                   pending, uuidCount, opCount, saveCount>>

\* handleAddNew, then the effect of TaskForm that resets the form of a new task
AddNew ==
    /\ Free
    /\ uuidCount < MaxUuids
    /\ isModalOpen' = TRUE
    /\ formData' = NewTask(randomUUID(uuidCount + 1), <<>>, NOT_STARTED, <<>>, <<>>)
    /\ uuidCount' = uuidCount + 1
    /\ error' = ""
    /\ UNCHANGED <<helperVars, pc, tasks, isLoading, isSaving, notification, loadError,
                   isConfirmOpen, taskToDeleteId, localStatus, statusMsg, fileDialog, pending,
                   opCount, saveCount>>

\* handleEditClick(task), then the effect of TaskForm that loads the task
EditClick ==
    /\ Free
    /\ ~loadError
    /\ \E i \in 1..Len(tasks) :
          formData' = [tasks[i] EXCEPT !.startDate = extractDate(tasks[i].startDate),
                                       !.endDate = extractDate(tasks[i].endDate)]
    /\ isModalOpen' = TRUE
    /\ error' = ""
    /\ UNCHANGED <<helperVars, pc, tasks, isLoading, isSaving, notification, loadError,
                   isConfirmOpen, taskToDeleteId, localStatus, statusMsg, fileDialog, pending,
                   uuidCount, opCount, saveCount>>

\* the name typed into the form
FormName == <<"n">>

\* handleChange('name', value): the user names the task that has no name
ChangeName ==
    /\ pc = "mounted" /\ isModalOpen /\ ~isConfirmOpen
    /\ formData.name = <<>>
    /\ formData' = [formData EXCEPT !.name = FormName]
    /\ UNCHANGED <<helperVars, pc, tasks, isLoading, isSaving, notification, loadError,
                   isModalOpen, error, isConfirmOpen, taskToDeleteId, localStatus, statusMsg,
                   fileDialog, pending, uuidCount, opCount, saveCount>>

\* handleChange('dependencies', options): the options are the existing tasks
\* other than the task of the form; the selection is emptied, or the first
\* option is selected
ChangeDependencies ==
    /\ pc = "mounted" /\ isModalOpen /\ ~isConfirmOpen
    /\ LET options == SelectSeq(tasks, LAMBDA t : t.id # formData.id)
       IN  \E v \in {<<>>} \cup {<<options[i].id>> : i \in 1..Len(options) \cap {1}} :
              /\ v # formData.dependencies
              /\ formData' = [formData EXCEPT !.dependencies = v]
    /\ UNCHANGED <<helperVars, pc, tasks, isLoading, isSaving, notification, loadError,
                   isModalOpen, error, isConfirmOpen, taskToDeleteId, localStatus, statusMsg,
                   fileDialog, pending, uuidCount, opCount, saveCount>>

\* a form that looks at no dependency
dependsOnItself_Never(f) == FALSE

\* formData.dependencies.includes(formData.id), guarded as on line 104
dependsOnItself(f) ==
    /\ Len(f.dependencies) > 0
    /\ f.id # <<>>
    /\ \E d \in 1..Len(f.dependencies) : f.dependencies[d] = f.id

\* what the user may have typed as the name of a new category when the form
\* is submitted
NewCategoryNames == {<<" ">>, <<"z">>}

\* handleSubmit of TaskForm.  isNewCategory and newCategoryName are the state
\* of the category selector at that moment; a new category is written into
\* formData before the dependencies are looked at.  When the form is valid,
\* onSave(formData) runs handleSaveTask up to its await and onClose() closes
\* the modal
Submit ==
    /\ pc = "mounted" /\ isModalOpen /\ ~isConfirmOpen
    /\ \E isNewCategory \in BOOLEAN, newCategoryName \in NewCategoryNames :
          LET named == IF isNewCategory
                       THEN [formData EXCEPT !.category = trim(newCategoryName)]
                       ELSE formData
          IN  IF formData.name = <<>>
              THEN /\ error' = "Task name is required"
                   /\ UNCHANGED <<isSaving, pending, opCount, saveCount, isModalOpen, formData>>
              ELSE IF isNewCategory /\ trim(newCategoryName) = <<>>
              THEN /\ error' = "Please enter a name for the new category"
                   /\ UNCHANGED <<isSaving, pending, opCount, saveCount, isModalOpen, formData>>
              ELSE IF dependsOnItself(named)
              THEN /\ error' = "A task cannot depend on itself"
                   /\ formData' = named
                   /\ UNCHANGED <<isSaving, pending, opCount, saveCount, isModalOpen>>
              ELSE /\ opCount < MaxOps
                   /\ saveCount < MaxSaves
                   /\ isSaving' = TRUE
                   /\ pending' = pending \cup
                         {[NewOp("save") EXCEPT !.task = named,
                                                !.isNew = ~someId(tasks, named.id)]}
                   /\ opCount' = opCount + 1
                   /\ saveCount' = saveCount + 1
                   /\ isModalOpen' = FALSE
                   /\ formData' = ClosedForm
                   /\ error' = ""
    /\ UNCHANGED <<helperVars, pc, tasks, isLoading, notification, loadError,
                   isConfirmOpen, taskToDeleteId, localStatus, statusMsg, fileDialog, uuidCount>>

\* the id of the form is the latest random UUID and no task and no operation
\* holds it: nothing can tell it from the next random UUID
unusedId ==
    /\ uuidCount > 0
    /\ formData.id = randomUUID(uuidCount)
    /\ ~someId(tasks, formData.id)
    /\ \A o \in pending :
          /\ ~someId(o.list, formData.id)
          /\ o.task = <<>> \/ o.task.id # formData.id

\* onClose of the form: the backdrop, the close button or Cancel.  An unused id
\* leaves with the form, so that the next random UUID takes its name
CloseForm ==
    /\ pc = "mounted" /\ isModalOpen /\ ~isConfirmOpen
    /\ isModalOpen' = FALSE
    /\ formData' = ClosedForm
    /\ error' = ""
    /\ uuidCount' = IF unusedId THEN uuidCount - 1 ELSE uuidCount
    /\ UNCHANGED <<helperVars, pc, tasks, isLoading, isSaving, notification, loadError,
                   isConfirmOpen, taskToDeleteId, localStatus, statusMsg, fileDialog, pending,
                   opCount, saveCount>>

\* handleSaveTask after its await: saveTask resolved with the saved task
SaveResolve ==
    \E op \in pending :
        /\ op.kind = "save"
        /\ LET new == IF op.isNew THEN Append(tasks, op.task)
                      ELSE replaceById(tasks, op.task.id, op.task)
           IN  /\ tasks' = new
               /\ pending' = written(touch(pending \ {op}, tasks, new), op.task)
        /\ notification' =
              [message |-> <<IF op.isNew THEN "Task created successfully"
                             ELSE "Task updated successfully">>,
               type |-> "success"]
        /\ loadError' = FALSE
        /\ isSaving' = FALSE
        /\ UNCHANGED <<helperVars, pc, isLoading, isModalOpen, formData, error,
                       isConfirmOpen, taskToDeleteId, localStatus, statusMsg, fileDialog,
                       uuidCount, opCount, saveCount>>

\* a handleSaveTask that puts the task into the collection before its await
\* and leaves it there when saveTask rejects
SaveReject_Applied ==
    \E op \in pending :
        /\ op.kind = "save"
        /\ tasks' = IF op.isNew THEN Append(tasks, op.task)
                    ELSE replaceById(tasks, op.task.id, op.task)
        /\ pending' = pending \ {op}
        /\ notification' = [message |-> <<"Failed to save task">>, type |-> "error"]
        /\ isSaving' = FALSE
        /\ UNCHANGED <<helperVars, pc, isLoading, loadError, isModalOpen,
                       formData, error, isConfirmOpen, taskToDeleteId, localStatus, statusMsg,
                       fileDialog, uuidCount, opCount, saveCount>>

\* handleSaveTask after its await: saveTask rejected
SaveReject ==
    \E op \in pending :
        /\ op.kind = "save"
        /\ pending' = pending \ {op}
        /\ notification' = [message |-> <<"Failed to save task">>, type |-> "error"]
        /\ isSaving' = FALSE
        /\ UNCHANGED <<helperVars, pc, tasks, isLoading, loadError, isModalOpen,
                       formData, error, isConfirmOpen, taskToDeleteId, localStatus, statusMsg,
                       fileDialog, uuidCount, opCount, saveCount>>

\* the statuses picked in the status selectors
StatusChoices == {IN_PROGRESS, COMPLETED}

\* handleStatusChange(taskId, newStatus) up to its await: the optimistic
\* update, then the call of saveTask
StatusChange ==
    /\ Free
    /\ ~loadError
    /\ opCount < MaxOps
    /\ \E i \in 1..Len(tasks), newStatus \in StatusChoices :
          LET taskId      == tasks[i].id
              found       == tasks[CHOOSE j \in 1..Len(tasks) :
                                      /\ tasks[j].id = taskId
                                      /\ \A k \in 1..(j - 1) : tasks[k].id # taskId]
              updatedTask == [found EXCEPT !.status = newStatus]
              new         == replaceById(tasks, taskId, updatedTask)
          IN  /\ newStatus # tasks[i].status
              /\ tasks' = new
              /\ pending' = touch(pending, tasks, new) \cup
                    {[NewOp("status") EXCEPT !.id = taskId, !.task = found,
                                             !.updated = updatedTask,
                                             !.before = tasks]}
    /\ opCount' = opCount + 1
    /\ UNCHANGED saveCount
    /\ UNCHANGED <<helperVars, pc, isLoading, isSaving, notification, loadError,
                   isModalOpen, formData, error, isConfirmOpen, taskToDeleteId,
                   localStatus, statusMsg, fileDialog, uuidCount>>

\* handleStatusChange after its await: saveTask resolved
StatusResolve ==
    \E op \in pending :
        /\ op.kind = "status"
        /\ pending' = written(pending \ {op}, op.updated)
        /\ notification' = [message |-> <<"Task marked as ", op.updated.status>>,
                            type |-> "success"]
        /\ UNCHANGED <<helperVars, pc, tasks, isLoading, isSaving, loadError,
                       isModalOpen, formData, error, isConfirmOpen, taskToDeleteId,
                       localStatus, statusMsg, fileDialog, uuidCount, opCount, saveCount>>

\* the collection after the catch block of handleStatusChange
statusReverted(prev, op) == replaceById(prev, op.id, op.task)

\* handleStatusChange after its await: saveTask rejected, the update is
\* reverted
StatusRejectOf(op) ==
    /\ op.kind = "status"
    /\ tasks' = statusReverted(tasks, op)
    /\ pending' = touch(pending \ {op}, tasks, statusReverted(tasks, op))
    /\ notification' = [message |-> <<"Failed to update status">>, type |-> "error"]
    /\ UNCHANGED <<helperVars, pc, isLoading, isSaving, loadError, isModalOpen,
                   formData, error, isConfirmOpen, taskToDeleteId, localStatus, statusMsg,
                   fileDialog, uuidCount, opCount, saveCount>>

StatusReject == \E op \in pending : StatusRejectOf(op)

\* confirmDeleteTask(id): from a row of the list, or from the form of an
\* existing task (handleDelete)
ConfirmDelete ==
    /\ pc = "mounted" /\ ~isConfirmOpen /\ ~fileDialog /\ ~loadError
    /\ \E i \in 1..Len(tasks) :
          /\ isModalOpen => tasks[i].id = formData.id
          /\ taskToDeleteId' = tasks[i].id
    /\ isConfirmOpen' = TRUE
    /\ UNCHANGED <<helperVars, pc, tasks, isLoading, isSaving, notification, loadError,
                   isModalOpen, formData, error, localStatus, statusMsg, fileDialog, pending,
                   uuidCount, opCount, saveCount>>

\* onClose of the confirmation.  taskToDeleteId is read only while the
\* confirmation is open and confirmDeleteTask sets it before it opens, so the
\* model clears it here
CancelDelete ==
    /\ pc = "mounted" /\ isConfirmOpen
    /\ isConfirmOpen' = FALSE
    /\ taskToDeleteId' = <<>>
    /\ UNCHANGED <<helperVars, pc, tasks, isLoading, isSaving, notification, loadError,
                   isModalOpen, formData, error, localStatus, statusMsg, fileDialog, pending,
                   uuidCount, opCount, saveCount>>

\* executeDeleteTask up to its await
ExecuteDelete ==
    /\ pc = "mounted" /\ isConfirmOpen
    /\ taskToDeleteId # <<>>
    /\ opCount < MaxOps
    /\ isConfirmOpen' = FALSE
    /\ isSaving' = TRUE
    /\ pending' = pending \cup {[NewOp("delete") EXCEPT !.id = taskToDeleteId]}
    /\ opCount' = opCount + 1
    /\ UNCHANGED saveCount
    /\ UNCHANGED <<helperVars, pc, tasks, isLoading, notification, loadError,
                   isModalOpen, formData, error, taskToDeleteId, localStatus, statusMsg,
                   fileDialog, uuidCount>>

\* executeDeleteTask after its await: deleteTask resolved
DeleteResolve ==
    \E op \in pending :
        /\ op.kind = "delete"
        /\ LET new == SelectSeq(tasks, LAMBDA t : t.id # op.id)
           IN  /\ tasks' = new
               /\ pending' = touch(pending \ {op}, tasks, new)
        /\ isModalOpen' = FALSE
        /\ formData' = ClosedForm
        /\ error' = ""
        /\ notification' = [message |-> <<"Task deleted">>, type |-> "success"]
        /\ loadError' = FALSE
        /\ isSaving' = FALSE
        /\ taskToDeleteId' = <<>>
        /\ UNCHANGED <<helperVars, pc, isLoading, isConfirmOpen,
                       localStatus, statusMsg, fileDialog, uuidCount, opCount, saveCount>>

\* executeDeleteTask after its await: deleteTask rejected
DeleteReject ==
    \E op \in pending :
        /\ op.kind = "delete"
        /\ pending' = pending \ {op}
        /\ notification' = [message |-> <<"Failed to delete task">>, type |-> "error"]
        /\ isSaving' = FALSE
        /\ taskToDeleteId' = <<>>
        /\ UNCHANGED <<helperVars, pc, tasks, isLoading, loadError, isModalOpen,
                       formData, error, isConfirmOpen, localStatus, statusMsg, fileDialog,
                       uuidCount, opCount, saveCount>>

\* the Import button with every repeat trigger let through
importDisabled_Never(isImporting, status) == FALSE

\* the attribute `disabled` of the Import button
importDisabled(isImporting, status) == isImporting \/ status = "parsing"

\* handleImportClick: the button is enabled and isImporting (the isSaving of
\* App) is false; the file chooser of the hidden input opens
ImportClick ==
    /\ Free
    /\ ~importDisabled(isSaving, localStatus)
    /\ ~isSaving
    /\ localStatus' = "idle"
    /\ fileDialog' = TRUE
    /\ UNCHANGED statusMsg
    /\ UNCHANGED <<helperVars, pc, tasks, isLoading, isSaving, notification, loadError,
                   isModalOpen, formData, error, isConfirmOpen, taskToDeleteId,
                   pending, uuidCount, opCount, saveCount>>

\* the file chooser is closed without a file: no change event
FileCancel ==
    /\ pc = "mounted" /\ fileDialog
    /\ fileDialog' = FALSE
    /\ UNCHANGED <<helperVars, pc, tasks, isLoading, isSaving, notification, loadError,
                   isModalOpen, formData, error, isConfirmOpen, taskToDeleteId,
                   localStatus, statusMsg, pending, uuidCount, opCount, saveCount>>

\* handleFileChange: a file is selected and reader.readAsText(file) starts
FileChange ==
    /\ pc = "mounted" /\ fileDialog
    /\ opCount < MaxOps
    /\ uuidCount + 3 <= MaxUuids
    /\ \E file \in 1..Len(Files) :
          pending' = pending \cup {[NewOp("read") EXCEPT !.file = file,
                                                          !.existing = tasks]}
    /\ localStatus' = "parsing"
    /\ statusMsg' = "Reading file..."
    /\ fileDialog' = FALSE
    /\ opCount' = opCount + 1
    /\ UNCHANGED saveCount
    /\ UNCHANGED <<helperVars, pc, tasks, isLoading, isSaving, notification, loadError,
                   isModalOpen, formData, error, isConfirmOpen, taskToDeleteId,
                   uuidCount>>

\* reader.onload without the test of the content: an empty file is parsed
\* like any other
readerOutcome_NoEmptyTest(content, importedTasks) ==
    IF Len(importedTasks) > 0 THEN "onImport" ELSE "No valid tasks found"

\* what reader.onload does with the content of the file: it hands the parsed
\* tasks to onImport, or it shows an error with this message
readerOutcome(content, importedTasks) ==
    IF content = <<>> THEN "Empty file"
    ELSE IF Len(importedTasks) > 0 THEN "onImport"
    ELSE "No valid tasks found"

\* reader.onload: the content is parsed and, when it holds tasks, onImport runs
\* handleImport up to its await: the ids are sanitized, the dependencies
\* follow, and syncTasks(finalTasks) is called.  onImport is the handleImport
\* of the render in which the file was selected, so its tasks are op.existing
ReaderLoadOf(op) ==
    /\ op \in pending
    /\ op.kind = "read"
    /\ \E importedTasks \in
            {parseCSVToTasks(Files[op.file],
                 [k \in 1..(9 - uuidCount) |-> randomUUID(uuidCount + k)])} :
          LET drawn   == Cardinality({i \in 1..Len(importedTasks) :
                             \E k \in 1..(9 - uuidCount) :
                                importedTasks[i].id = randomUUID(uuidCount + k)})
              renamed == Cardinality({i \in 1..Len(importedTasks) :
                             needsNewId(importedTasks[i], op.existing)})
              outcome == readerOutcome(Files[op.file], importedTasks)
          IN  IF outcome = "onImport"
              THEN /\ isSaving' = TRUE
                   /\ pending' = (pending \ {op}) \cup
                         {[op EXCEPT
                             !.kind = "sync",
                             !.newTasks = importedTasks,
                             !.list = finalTasks(importedTasks, op.existing,
                                                 uuidCount + drawn),
                             !.count = Len(importedTasks)]}
                   /\ uuidCount' = uuidCount + drawn + renamed
                   /\ UNCHANGED <<localStatus, statusMsg>>
              ELSE /\ localStatus' = "error"
                   /\ statusMsg' = outcome
                   /\ pending' = pending \ {op}
                   /\ UNCHANGED <<isSaving, uuidCount>>
    /\ UNCHANGED <<helperVars, pc, tasks, isLoading, notification, loadError,
                   isModalOpen, formData, error, isConfirmOpen, taskToDeleteId,
                   fileDialog, opCount, saveCount>>

ReaderLoad == \E op \in pending : ReaderLoadOf(op)

\* reader.onerror
ReaderError ==
    \E op \in pending :
        /\ op.kind = "read"
        /\ pending' = pending \ {op}
        /\ localStatus' = "error"
        /\ statusMsg' = "Error reading file"
        /\ UNCHANGED <<helperVars, pc, tasks, isLoading, isSaving, notification,
                       loadError, isModalOpen, formData, error, isConfirmOpen,
                       taskToDeleteId, fileDialog, uuidCount, opCount, saveCount>>

\* what taskService.syncTasks(list) may resolve with, the store holding the
\* tasks stored: the list alone, or the stored tasks followed by the list
syncTasks(list, stored) == {list, stored \o list}

\* handleImport after its await: syncTasks resolved, its result becomes the
\* collection
SyncResolve ==
    \E op \in pending :
        /\ op.kind = "sync"
        /\ \E syncedTasks \in syncTasks(op.list, op.existing) :
              /\ tasks' = syncedTasks
              /\ pending' = touch(pending \ {op}, tasks, syncedTasks)
        /\ notification' = [message |-> <<"Successfully imported ", op.count, " tasks">>,
                            type |-> "success"]
        /\ isSaving' = FALSE
        /\ UNCHANGED <<helperVars, pc, isLoading, loadError, isModalOpen, formData,
                       error, isConfirmOpen, taskToDeleteId, localStatus, statusMsg, fileDialog,
                       uuidCount, opCount, saveCount>>

\* handleImport after its await: syncTasks rejected
SyncReject ==
    \E op \in pending :
        /\ op.kind = "sync"
        /\ pending' = pending \ {op}
        /\ notification' = [message |-> <<"Failed to import tasks">>, type |-> "error"]
        /\ isSaving' = FALSE
        /\ UNCHANGED <<helperVars, pc, tasks, isLoading, loadError, isModalOpen,
                       formData, error, isConfirmOpen, taskToDeleteId, localStatus, statusMsg,
                       fileDialog, uuidCount, opCount, saveCount>>

\* the timer of CsvManager that clears a success or error status
StatusTimer ==
    /\ pc = "mounted"
    /\ localStatus \in {"success", "error"}
    /\ localStatus' = "idle"
    /\ statusMsg' = ""
    /\ UNCHANGED <<helperVars, pc, tasks, isLoading, isSaving, notification, loadError,
                   isModalOpen, formData, error, isConfirmOpen, taskToDeleteId,
                   fileDialog, pending, uuidCount, opCount, saveCount>>

\* onClose of the Toast: its timer or its button
DismissNotification ==
    /\ pc = "mounted"
    /\ notification # NoNotification
    /\ notification' = NoNotification
    /\ UNCHANGED <<helperVars, pc, tasks, isLoading, isSaving, loadError, isModalOpen,
                   formData, error, isConfirmOpen, taskToDeleteId, localStatus, statusMsg,
                   fileDialog, pending, uuidCount, opCount, saveCount>>

NextApp ==
    \/ LoadTasksResolve
    \/ LoadTasksReject
    \/ AddNew
    \/ EditClick
    \/ ChangeName
    \/ ChangeDependencies
    \/ Submit
    \/ CloseForm
    \/ SaveResolve
    \/ SaveReject
    \/ StatusChange
    \/ StatusResolve
    \/ StatusReject
    \/ ConfirmDelete
    \/ CancelDelete
    \/ ExecuteDelete
    \/ DeleteResolve
    \/ DeleteReject
    \/ ImportClick
    \/ FileCancel
    \/ FileChange
    \/ ReaderLoad
    \/ ReaderError
    \/ SyncResolve
    \/ SyncReject
    \/ StatusTimer
    \/ DismissNotification

SpecApp == InitApp /\ [][NextApp]_vars

(***************************************************************************)
(* The task collection of the application                                  *)
(***************************************************************************)

\* no two tasks of the list ts share an id
uniqueIds(ts) == \A i, j \in 1..Len(ts) : ts[i].id = ts[j].id => i = j

\* C13: in every reachable state of the application, after any sequence of
\* form saves, status changes, deletes and CSV imports, no two tasks of the
\* collection share an id
C13_UniqueIds == uniqueIds(tasks)

\* C12: when the saveTask of a status change rejects and no other operation
\* changed the collection since the change was requested, the collection
\* after the rejection is the collection before the request, and no save is
\* started
C12_FailedStatusChangeReverted ==
    [][\A op \in pending :
          (StatusRejectOf(op) /\ ~op.touched)
             => /\ tasks' = op.before
                /\ Cardinality(pending') < Cardinality(pending)
                /\ \A o \in pending' : o.n # op.n]_vars

(***************************************************************************)
(* The import of a CSV file next to the operations of the list             *)
(***************************************************************************)

\* the application without the task form: the list with its status selectors
\* and delete buttons, and the CSV import
NextImporting ==
    \/ LoadTasksResolve
    \/ LoadTasksReject
    \/ StatusChange
    \/ StatusResolve
    \/ StatusReject
    \/ ConfirmDelete
    \/ CancelDelete
    \/ ExecuteDelete
    \/ DeleteResolve
    \/ DeleteReject
    \/ ImportClick
    \/ FileCancel
    \/ FileChange
    \/ ReaderLoad
    \/ ReaderError
    \/ SyncResolve
    \/ SyncReject
    \/ StatusTimer
    \/ DismissNotification

SpecImporting == InitApp /\ [][NextImporting]_vars

\* the imports in flight: the file is being read, or syncTasks has not settled
importsInFlight == {o \in pending : o.kind \in {"read", "sync"}}

\* C14: at most one CSV import is in flight at any time, and from the moment
\* a file is selected until the sync call of the import settles the import
\* trigger can start no other: the file chooser is closed and the Import
\* button is disabled
C14_OneImportInFlight ==
    /\ Cardinality(importsInFlight) <= 1
    /\ importsInFlight # {} =>
          /\ ~fileDialog
          /\ isSaving \/ localStatus = "parsing"

\* the sync call of an import is pending while isSaving is false again, a
\* delete that ran next to the import having settled
C14_Witness ==
    /\ \E o \in pending : o.kind = "sync"
    /\ ~isSaving
    /\ localStatus = "parsing"

(***************************************************************************)
(* The task form                                                           *)
(***************************************************************************)

\* the application with the task form alone: tasks are created and edited
NextEditing ==
    \/ LoadTasksResolve
    \/ LoadTasksReject
    \/ AddNew
    \/ EditClick
    \/ ChangeName
    \/ ChangeDependencies
    \/ Submit
    \/ CloseForm
    \/ SaveResolve
    \/ SaveReject

SpecEditing == InitApp /\ [][NextEditing]_vars

\* the dependency list of the form holds the id of the task of the form
ownIdInDependencies ==
    \E d \in 1..Len(formData.dependencies) : formData.dependencies[d] = formData.id

\* C15: submitting the form while its dependency list holds the id of its own
\* task is rejected: handleSaveTask is not called (no operation starts and
\* isSaving keeps its value), the form stays open and shows a validation
\* error, and the task collection is unchanged
C15_SelfDependencyRejected ==
    [][(isModalOpen /\ ownIdInDependencies /\ Submit)
          => /\ pending' = pending
             /\ saveCount' = saveCount
             /\ isSaving' = isSaving
             /\ isModalOpen'
             /\ error' # ""
             /\ tasks' = tasks]_vars

\* the form of a task that depends on itself was submitted with a name, and
\* shows the error of the dependency check
C15_Witness ==
    /\ isModalOpen
    /\ ownIdInDependencies
    /\ formData.name # <<>>
    /\ error = "A task cannot depend on itself"
    /\ pending = {}

(***************************************************************************)
(* The colour of a category                                                *)
(***************************************************************************)

\* String.prototype.charCodeAt for letters, digits and the space
charCodeAt(c) ==
    IF \E i \in 1..26 : Lowers[i] = c THEN 96 + (CHOOSE i \in 1..26 : Lowers[i] = c)
    ELSE IF \E i \in 1..26 : Uppers[i] = c THEN 64 + (CHOOSE i \in 1..26 : Uppers[i] = c)
    ELSE IF IsDigit(c) THEN 48 + DigitVal(c)
    ELSE 32

\* The numbers of the hash leave the range of the integers of the checker, so
\* a whole number is kept as two parts: Wide(hi, lo) is hi * 2^16 + lo with
\* 0 <= lo < 2^16.  JavaScript numbers are doubles, which hold these whole
\* numbers exactly
Wide(hi, lo) == [hi |-> hi, lo |-> lo]

\* ToInt32: the number modulo 2^32, as a signed 32-bit integer
ToInt32(x) == Wide(((x.hi + 2^15) % 2^16) - 2^15, x.lo)

\* x << 5: the operand is converted with ToInt32 and the result is a signed
\* 32-bit integer
shiftLeft5(x) ==
    ToInt32(Wide(ToInt32(x).hi * 32 + (x.lo * 32) \div 2^16, (x.lo * 32) % 2^16))

\* a - b and a + b of numbers: no wraparound
minus(a, b) ==
    IF a.lo < b.lo THEN Wide(a.hi - b.hi - 1, a.lo - b.lo + 2^16)
    ELSE Wide(a.hi - b.hi, a.lo - b.lo)

plus(a, b) == Wide(a.hi + b.hi + (a.lo + b.lo) \div 2^16, (a.lo + b.lo) % 2^16)

\* Math.abs
abs(a) ==
    IF a.hi >= 0 THEN a
    ELSE IF a.lo = 0 THEN Wide(-a.hi, 0)
    ELSE Wide(-a.hi - 1, 2^16 - a.lo)

\* a % 360 for a >= 0
mod360(a) == ((a.hi % 360) * (2^16 % 360) + a.lo) % 360

\* one turn of the loop: category.charCodeAt(i) + ((hash << 5) - hash)
hashStep(hash, code) == plus(Wide(0, code), minus(shiftLeft5(hash), hash))

RECURSIVE hashOf(_, _)
\* hash after the first n characters of category
hashOf(category, n) ==
    IF n = 0 THEN Wide(0, 0)
    ELSE CHOOSE next \in {hashStep(hash, charCodeAt(category[n])) :
                             hash \in {hashOf(category, n - 1)}} : TRUE

\* the fixed palette: CATEGORY_COLORS[category], <<>> when the category has
\* no entry
CATEGORY_COLORS(category) ==
    IF category = VENUE THEN <<"#", "1">>
    ELSE IF category = CATEGORY_OTHER THEN <<"#", "2">>
    ELSE <<>>

\* `hsl(${h}, 70%, 80%)`
hsl(h) ==
    <<"h", "s", "l", "(">> \o numberToString(h)
        \o <<",", " ", "7", "0", "%", ",", " ", "8", "0", "%", ")">>

getCategoryColor(category) ==
    IF CATEGORY_COLORS(category) # <<>> THEN CATEGORY_COLORS(category)
    ELSE hsl(mod360(abs(hashOf(category, Len(category)))))

\* the longest category that is coloured
MaxCategoryLen == 7

\* the characters of the categories
CategoryLetters == {"a", "z"}

ColoredCategories ==
    UNION {[1..n -> CategoryLetters] : n \in 0..MaxCategoryLen}
        \cup {TaskCategory[i] : i \in 1..Len(TaskCategory)}

InitColor ==
    /\ task \in {[NewTask(<<"1">>, <<"a">>, NOT_STARTED, <<>>, <<>>)
                    EXCEPT !.category = c] : c \in ColoredCategories}
    /\ pc = "category"
    /\ result = NoResult
    /\ now = ClockDay * DayLength
    /\ tz = 0
    /\ csv = <<>>
    /\ parsed = <<>>
    /\ tasks = <<>>
    /\ AppIdle

\* a view asks for the colour of the category of the task
GetCategoryColor ==
    /\ pc = "category"
    /\ result' = [op |-> "getCategoryColor", val |-> getCategoryColor(task.category)]
    /\ pc' = "colored"
    /\ UNCHANGED <<task, now, tz, csv, parsed, tasks, appVars>>

NextColor == GetCategoryColor

SpecColor == InitColor /\ [][NextColor]_vars

\* hash * 31 + code, brought back to a signed 32-bit integer
wrappingStep(h, c) ==
    ToInt32(Wide(h.hi * 31 + (h.lo * 31 + c) \div 2^16, (h.lo * 31 + c) % 2^16))

RECURSIVE wrappingHash(_, _)
\* the polynomial hash hash * 31 + charCode of the first n characters, with
\* signed 32-bit wraparound after every step
wrappingHash(category, n) ==
    IF n = 0 THEN Wide(0, 0)
    ELSE CHOOSE next \in {wrappingStep(h, charCodeAt(category[n])) :
                             h \in {wrappingHash(category, n - 1)}} : TRUE

\* the category of the task has no entry in the palette
OutsidePalette == \A i \in 1..Len(TaskCategory) : task.category # TaskCategory[i]

\* the hue of a colour string hsl(h, 70%, 80%)
hueOf(color) == readDigits(color, 5, NaN)

\* C18: for every category outside the fixed palette the colour is
\* hsl(h, 70%, 80%) with h = |H| mod 360, H being the polynomial hash
\* hash * 31 + charCode with signed 32-bit wraparound after every step; in
\* particular 0 <= h <= 359
C18_ColorOfWrappingHash ==
    (pc = "colored" /\ OutsidePalette) =>
        /\ result.val =
              hsl(mod360(abs(wrappingHash(task.category, Len(task.category)))))
        /\ hueOf(result.val) \in 0..359

(***************************************************************************)
(* The Gantt chart                                                         *)
(***************************************************************************)

\* tasks.filter(t => t.startDate), the mutation that asks for the start alone
scheduledTasks_StartOnly(ts) == SelectSeq(ts, LAMBDA t : t.startDate # <<>>)

\* tasks.filter(t => t.startDate && t.endDate)
scheduledTasks(ts) == SelectSeq(ts, LAMBDA t : t.startDate # <<>> /\ t.endDate # <<>>)

\* tasks.length > scheduledTasks.length
hasUnscheduledTasks(ts) == Len(ts) > Len(scheduledTasks(ts))

\* t.category || TaskCategory.OTHER
categoryOf(t) == IF t.category # <<>> THEN t.category ELSE CATEGORY_OTHER

\* the sequence f with its elements worked out once
listOf(f) == f \o <<>>

\* the members of a set of positions, in ascending order
ascending(S) ==
    listOf([k \in 1..Cardinality(S) |->
               CHOOSE i \in S : Cardinality({j \in S : j <= i}) = k])

\* Object.entries(groups): the categories of the scheduled tasks in the order
\* of their first task, each with its tasks in the order of the collection
groupsOf(sched) ==
    LET firsts == ascending({i \in 1..Len(sched) :
                       \A j \in 1..(i - 1) : categoryOf(sched[j]) # categoryOf(sched[i])})
    IN  listOf([k \in 1..Len(firsts) |->
                   [name  |-> categoryOf(sched[firsts[k]]),
                    tasks |-> SelectSeq(sched, LAMBDA t :
                                 categoryOf(t) = categoryOf(sched[firsts[k]]))]])

\* the times of a list of date strings that parse
validTimes(dates) == {DateParse(dates[i]) : i \in 1..Len(dates)} \ {NaN}

\* Math.min(...) and Math.max(...) of a set of times that is not empty
Min(S) == CHOOSE x \in S : \A y \in S : x <= y

Max(S) == CHOOSE x \in S : \A y \in S : x >= y

\* new Date(t).toISOString().split('T')[0]
isoDateOf(t) == IsoDate(t \div DayLength)

\* the span that takes its dates from the first task of the category
categorySpan_FirstTask(name, categoryTasks, clock) ==
    [name      |-> name,
     startDate |-> isoDateOf(orZero(DateParse(categoryTasks[1].startDate))),
     endDate   |-> isoDateOf(orZero(DateParse(categoryTasks[1].endDate))),
     tasks     |-> categoryTasks]

\* the span of one category: from the earliest start that parses to the
\* latest end that parses, the current time standing in where none parses
categorySpan(name, categoryTasks, clock) ==
    LET validStartDates == validTimes([i \in 1..Len(categoryTasks) |->
                                          categoryTasks[i].startDate])
        validEndDates   == validTimes([i \in 1..Len(categoryTasks) |->
                                          categoryTasks[i].endDate])
        start == IF validStartDates # {} THEN Min(validStartDates) ELSE clock
        end   == IF validEndDates # {} THEN Max(validEndDates) ELSE clock
    IN  [name      |-> name,
         startDate |-> isoDateOf(start),
         endDate   |-> isoDateOf(end),
         tasks     |-> categoryTasks]

\* Array.prototype.sort with (a, b) => new Date(a.startDate).getTime() -
\* new Date(b.startDate).getTime() on rows whose start dates parse: ascending,
\* rows of equal start keeping their order
sortByStart(rows) ==
    LET key     == listOf([i \in 1..Len(rows) |-> DateParse(rows[i].startDate)])
        rank(i) == Cardinality({j \in 1..Len(rows) : key[j] < key[i]})
                      + Cardinality({j \in 1..i : key[j] = key[i]})
    IN  listOf([r \in 1..Len(rows) |-> rows[CHOOSE i \in 1..Len(rows) : rank(i) = r]])

\* categorySpans of the chart
categorySpans(ts, clock) ==
    LET groups == groupsOf(scheduledTasks(ts))
    IN  sortByStart(listOf([k \in 1..Len(groups) |->
                        categorySpan(groups[k].name, groups[k].tasks, clock)]))

\* the tasks of the drill-down: scheduledTasks.filter(t => (t.category ||
\* TaskCategory.OTHER) === drilldownCategory); the rows show them in the
\* order of their start dates
drilldownTasks(ts, category) ==
    SelectSeq(scheduledTasks(ts), LAMBDA t : categoryOf(t) = category)

\* the chart is rendered: neither "No tasks found" nor "No scheduled tasks"
chartShown(ts) == Len(ts) > 0 /\ Len(scheduledTasks(ts)) > 0

\* the number of the note "* n tasks hidden (no dates)"
hiddenCount(ts) == Len(ts) - Len(scheduledTasks(ts))

\* the most tasks of a collection that is charted
MaxGanttTasks == 2

GanttCategories == {VENUE, CATEGORY_OTHER, <<>>}

\* the start and end dates of the charted tasks: none, one of the two, both,
\* an end before the start, dates that do not parse
GanttDates ==
    {<< <<>>, <<>> >>,
     <<IsoDate(FirstDay), <<>> >>,
     << <<>>, IsoDate(FirstDay + 2)>>,
     <<IsoDate(FirstDay), IsoDate(FirstDay + 2)>>,
     <<IsoDate(FirstDay + 2), IsoDate(FirstDay + 3)>>,
     <<IsoDate(FirstDay + 9), IsoDate(FirstDay)>>,
     <<NotADate, IsoDate(FirstDay + 2)>>,
     <<NotADate, NotADate>>}

\* the time zones of the browser that draws the chart: New York and London
GanttZones == {-5, 0}

\* the collections that are charted; the id of a task is its position
InitGantt ==
    /\ \E n \in 0..MaxGanttTasks :
          \E f \in [1..n -> GanttCategories \X GanttDates] :
             tasks = [i \in 1..n |->
                        [NewTask(<<Digits[i + 1]>>, <<"t">>, NOT_STARTED,
                                 f[i][2][1], f[i][2][2])
                            EXCEPT !.category = f[i][1]]]
    /\ now = ClockDay * DayLength + 12
    /\ pc = "gantt"
    /\ task = NewTask(<<"1">>, <<"a">>, NOT_STARTED, <<>>, <<>>)
    /\ tz \in GanttZones
    /\ result = NoResult
    /\ csv = <<>>
    /\ parsed = <<>>
    /\ AppIdle

ganttFrame ==
    <<task, now, tz, result, csv, parsed, pc, isLoading, isSaving, notification,
      loadError, isModalOpen, formData, error, isConfirmOpen, taskToDeleteId,
      localStatus, statusMsg, fileDialog, pending, uuidCount, opCount, saveCount>>

\* a click on the row of a category in the overview:
\* setDrilldownCategory(category.name)
Drilldown ==
    /\ pc = "gantt" /\ chartShown(tasks) /\ drilldownCategory = <<>>
    /\ \E spans \in {categorySpans(tasks, now)} :
          \E k \in 1..Len(spans) : drilldownCategory' = spans[k].name
    /\ UNCHANGED <<ganttFrame, tasks>>

\* "Planning Timeline" or "Back to Overview": setDrilldownCategory(null)
BackToOverview ==
    /\ pc = "gantt" /\ chartShown(tasks) /\ drilldownCategory # <<>>
    /\ drilldownCategory' = <<>>
    /\ UNCHANGED <<ganttFrame, tasks>>

\* the chart is rendered again with a collection that lost a task
TaskRemoved ==
    /\ pc = "gantt"
    /\ \E i \in 1..Len(tasks) :
          tasks' = [k \in 1..(Len(tasks) - 1) |-> IF k < i THEN tasks[k] ELSE tasks[k + 1]]
    /\ UNCHANGED <<ganttFrame, drilldownCategory>>

NextGantt == Drilldown \/ BackToOverview \/ TaskRemoved

SpecGantt == InitGantt /\ [][NextGantt]_vars

\* both dates of the task are present
hasBothDates(t) == t.startDate # <<>> /\ t.endDate # <<>>

\* the task is among the tasks that the chart lays out: those of the category
\* spans and those of the rows of the drill-down
laidOut(spans, rows, t) ==
    \/ \E k \in 1..Len(spans) : \E m \in 1..Len(spans[k].tasks) : spans[k].tasks[m] = t
    \/ \E m \in 1..Len(rows) : rows[m] = t

groupsHolding(spans, t) ==
    Cardinality({k \in 1..Len(spans) :
                    \E m \in 1..Len(spans[k].tasks) : spans[k].tasks[m] = t})

\* every scheduled task belongs to exactly one category group
inOneGroup(spans) ==
    \A i \in 1..Len(tasks) : hasBothDates(tasks[i]) => groupsHolding(spans, tasks[i]) = 1

\* the groups are listed in ascending order of span start
ascendingStarts(spans) ==
    \A k \in 1..(Len(spans) - 1) :
        DateParse(spans[k].startDate) <= DateParse(spans[k + 1].startDate)

\* the date strings of the members of a span
memberStarts(span) == [m \in 1..Len(span.tasks) |-> span.tasks[m].startDate]

memberEnds(span) == [m \in 1..Len(span.tasks) |-> span.tasks[m].endDate]

\* date is the earliest (the latest) of the dates: one of them is that day,
\* and none that parses is before (after) it
earliestOf(date, dates) ==
    /\ \E m \in 1..Len(dates) : ~isNaN(DateParse(dates[m])) /\ DateParse(dates[m]) = DateParse(date)
    /\ \A m \in 1..Len(dates) : isNaN(DateParse(dates[m])) \/ DateParse(dates[m]) >= DateParse(date)

latestOf(date, dates) ==
    /\ \E m \in 1..Len(dates) : ~isNaN(DateParse(dates[m])) /\ DateParse(dates[m]) = DateParse(date)
    /\ \A m \in 1..Len(dates) : isNaN(DateParse(dates[m])) \/ DateParse(dates[m]) <= DateParse(date)

\* none of the dates parses
noneParses(dates) == \A m \in 1..Len(dates) : isNaN(DateParse(dates[m]))

\* the current date, as toISOString gives it
today == IsoDate(now \div DayLength)

displayedData(ts, category, clock) ==
    IF category # <<>> THEN drilldownTasks(ts, category) ELSE categorySpans(ts, clock)

\* the start and end date strings of the rows, row after row (flatMap)
rowDates(rows) ==
    listOf([k \in 1..(2 * Len(rows)) |->
               IF k % 2 = 1 THEN rows[(k + 1) \div 2].startDate
                            ELSE rows[k \div 2].endDate])

\* the days of the buffer before and after the dates of the rows
BufferDays == 7

\* Date.prototype.toISOString() of an instant that is a whole hour
toISOString(t) ==
    IsoDate(t \div DayLength) \o <<"T">> \o Pad2(t % DayLength) \o WholeHour

\* chartStart and chartEnd: a week before the least and a week after the
\* greatest of the dates of the rows that parse, starts and ends alike; the
\* current time stands in when no date parses
chartRange(rows, clock) ==
    LET validDates == validTimes(rowDates(rows))
        minDate    == IF validDates # {} THEN Min(validDates) ELSE clock
        maxDate    == IF validDates # {} THEN Max(validDates) ELSE clock
    IN  [chartStart |-> minDate - BufferDays * DayLength,
         chartEnd   |-> maxDate + BufferDays * DayLength]

\* totalDurationDays, from the ISO strings of the two ends of the range
totalDurationDays(range, clock) ==
    LET chartStartIso == IF ~isNaN(range.chartStart) THEN toISOString(range.chartStart)
                         ELSE toISOString(clock)
        chartEndIso   == IF ~isNaN(range.chartEnd) THEN toISOString(range.chartEnd)
                         ELSE toISOString(clock)
    IN  calculateDaysBetween(chartStartIso, chartEndIso)

\* Math.ceil(a / b) for b > 0
Ceil(a, b) == -((-a) \div b)

\* new Date(year, month, day).getTime(): local midnight of a calendar date,
\* local time being UTC + offset
localMidnight(y, m, d, offset) == DaysFromCivil(y, m, d) * DayLength - offset

\* the months of the ruler: the loop of the chart from currentDate on, months
\* being the segments pushed so far
RECURSIVE monthsFrom(_, _, _, _, _)
monthsFrom(currentDate, months, range, total, offset) ==
    IF ~(currentDate <= range.chartEnd) THEN months
    ELSE LET c          == CivilFromDays((currentDate + offset) \div DayLength)
             monthStart == localMidnight(c.y, c.m, 1, offset)
             monthEnd   == localMidnight(c.y, c.m, DaysInMonth(c.y, c.m), offset)
             nextMonth  == IF c.m = 12 THEN localMidnight(c.y + 1, 1, 1, offset)
                           ELSE localMidnight(c.y, c.m + 1, 1, offset)
             relevantStart == IF monthStart < range.chartStart THEN range.chartStart
                              ELSE monthStart
             relevantEnd   == IF monthEnd > range.chartEnd THEN range.chartEnd
                              ELSE monthEnd
             days   == Ceil(relevantEnd - relevantStart, DayLength) + 1
             pushed == IF days > 0 /\ total > 0
                       THEN Append(months, [year |-> c.y, month |-> c.m, days |-> days,
                                            widthPct |-> <<days, total>>])
                       ELSE months
         IN  IF Len(pushed) > 100 THEN pushed
             ELSE monthsFrom(nextMonth, pushed, range, total, offset)

\* months: the segments of the ruler of a chart
monthsOf(range, total, offset) == monthsFrom(range.chartStart, <<>>, range, total, offset)

\* A percentage (n / d) * 100 is written <<n, d>>, d > 0; the rounding of the
\* floating-point division is left aside.
\* getPosition: the left offset of a date
getPosition(dateStr, range, total) ==
    LET date == DateParse(dateStr)
    IN  IF isNaN(date) \/ isNaN(range.chartStart) \/ total <= 0 THEN <<0, 1>>
        ELSE <<Ceil(date - range.chartStart, DayLength), total>>

\* getWidth: the width of a bar
getWidth(start, end, total) ==
    IF total <= 0 THEN <<0, 1>> ELSE <<calculateDaysBetween(start, end), total>>

\* Math.max(width, 0.5): 0.5 is (1 / 200) * 100
finalWidth(width) == IF width[1] * 200 >= width[2] THEN width ELSE <<1, 200>>

\* the bar of a row: left, width and the width it is drawn with
barOf(row, range, total) ==
    [row        |-> row,
     left       |-> getPosition(row.startDate, range, total),
     width      |-> getWidth(row.startDate, row.endDate, total),
     finalWidth |-> finalWidth(getWidth(row.startDate, row.endDate, total))]

\* what the chart draws for a collection: its range, its total of days, the
\* segments of its ruler and the bars of its rows
chartOf(ts, category, clock, offset) ==
    CHOOSE chart \in
        {[rows   |-> rows,
          range  |-> range,
          total  |-> total,
          months |-> monthsOf(range, total, offset),
          bars   |-> listOf([k \in 1..Len(rows) |-> barOf(rows[k], range, total)])] :
            <<rows, range, total>> \in
               {<<r, g, totalDurationDays(g, clock)>> :
                   <<r, g>> \in {<<r, chartRange(r, clock)>> :
                                   r \in {displayedData(ts, category, clock)}}}} : TRUE

\* the start (the end) date strings of the rows of a chart
startsOf(rows) == [k \in 1..Len(rows) |-> rows[k].startDate]

endsOf(rows) == [k \in 1..Len(rows) |-> rows[k].endDate]

\* every date of every row parses
allParse(rows) ==
    \A k \in 1..Len(rows) :
        ~isNaN(DateParse(rows[k].startDate)) /\ ~isNaN(DateParse(rows[k].endDate))

\* the calendar date of an instant that is a UTC midnight, <<>> otherwise
dateOfMidnight(t) == IF t % DayLength = 0 THEN IsoDate(t \div DayLength) ELSE <<>>

\* C21: in both modes of the chart, for every set of displayed rows with
\* dates that parse (an end date is not required to follow its start date),
\* the chart starts exactly 7 days before the earliest start date among the
\* displayed rows and ends exactly 7 days after the latest end date among
\* the displayed rows
C21_RangeOfStartsAndEnds ==
    (pc = "gantt" /\ chartShown(tasks)) =>
        \A chart \in {chartOf(tasks, drilldownCategory, now, tz)} :
            (chart.rows # <<>> /\ allParse(chart.rows)) =>
                /\ earliestOf(dateOfMidnight(chart.range.chartStart + 7 * DayLength),
                              startsOf(chart.rows))
                /\ latestOf(dateOfMidnight(chart.range.chartEnd - 7 * DayLength),
                            endsOf(chart.rows))

\* two percentages are the same number
samePct(p, q) == p[1] * q[2] = q[1] * p[2]

\* both dates of the row of a bar parse
datesParse(bar) ==
    ~isNaN(DateParse(bar.row.startDate)) /\ ~isNaN(DateParse(bar.row.endDate))

\* C22: for every displayed row, the left offset of the bar equals
\* daysBetween(chartStart, itemStart) / totalDays * 100 and its width equals
\* daysBetween(itemStart, itemEnd) / totalDays * 100, both with the inclusive
\* day count that defines totalDays
C22_OffsetAndWidthInclusive ==
    (pc = "gantt" /\ chartShown(tasks)) =>
        \A chart \in {chartOf(tasks, drilldownCategory, now, tz)} :
            \A k \in 1..Len(chart.bars) :
                datesParse(chart.bars[k]) =>
                    /\ samePct(chart.bars[k].left,
                               <<calculateDaysBetween(toISOString(chart.range.chartStart),
                                                      chart.bars[k].row.startDate),
                                 chart.total>>)
                    /\ samePct(chart.bars[k].width,
                               <<calculateDaysBetween(chart.bars[k].row.startDate,
                                                      chart.bars[k].row.endDate),
                                 chart.total>>)

\* a percentage is at least 0, and the sum of two is at most 100
atLeastZero(p) == p[1] >= 0

sumAtMostHundred(p, q) == p[1] * q[2] + q[1] * p[2] <= p[2] * q[2]

\* a percentage is at least 0.5
atLeastHalf(p) == p[1] * 200 >= p[2]

\* C23: for every set of scheduled tasks and in both modes of the chart,
\* every displayed bar lies inside the buffered range of the chart: its left
\* offset is at least 0%, its left offset plus its width is at most 100%,
\* and the width it is drawn with is at least 0.5%
C23_BarsInsideRange ==
    (pc = "gantt" /\ chartShown(tasks)) =>
        \A chart \in {chartOf(tasks, drilldownCategory, now, tz)} :
            \A k \in 1..Len(chart.bars) :
                /\ atLeastZero(chart.bars[k].left)
                /\ sumAtMostHundred(chart.bars[k].left, chart.bars[k].width)
                /\ atLeastHalf(chart.bars[k].finalWidth)

\* the calendar months, in local time, that hold an instant of the range
monthsOfRange(range, offset) ==
    {<<CivilFromDays(d).y, CivilFromDays(d).m>> :
        d \in ((range.chartStart + offset) \div DayLength)
                 ..((range.chartEnd + offset) \div DayLength)}

\* the sum of the day counts of the first n segments of a ruler
RECURSIVE daysOfSegments(_, _)
daysOfSegments(months, n) ==
    IF n = 0 THEN 0 ELSE months[n].days + daysOfSegments(months, n - 1)

\* C30: for every range of the chart, the loop of the month ruler ends with
\* exactly one segment for each calendar month that intersects the range,
\* and the day counts of the segments sum to the total day count of the
\* chart (the widths sum to 100%)
C30_RulerCoversRange ==
    (pc = "gantt" /\ chartShown(tasks)) =>
        \A chart \in {chartOf(tasks, drilldownCategory, now, tz)} :
            /\ {<<chart.months[k].year, chart.months[k].month>> :
                   k \in 1..Len(chart.months)} = monthsOfRange(chart.range, tz)
            /\ Len(chart.months) = Cardinality(monthsOfRange(chart.range, tz))
            /\ daysOfSegments(chart.months, Len(chart.months)) = chart.total

(***************************************************************************)
(* The import of a file without tasks                                      *)
(***************************************************************************)
\* the file of a read holds no character; it holds characters and no valid
\* row
emptyFile(op) == Files[op.file] = <<>>

filesWithoutTasks ==
    {f \in 1..Len(Files) : Files[f] # <<>> /\ parseCSVToTasks(Files[f], Uuids) = <<>>}

noValidTasks(op) == op.file \in filesWithoutTasks

\* the import handler was not called and the collection is as it was
importNotStarted(op) ==
    /\ tasks' = tasks
    /\ isSaving' = isSaving
    /\ notification' = notification
    /\ \A o \in pending' : o \in pending /\ o.n # op.n

\* C24: the import reports an empty file as an error state that is distinct
\* from the error state of a file that parses to no valid task, and in
\* neither case is the import handler called or the collection changed
C24_EmptyFileDistinctError ==
    [][\A op \in pending :
          (op.kind = "read" /\ (emptyFile(op) \/ noValidTasks(op)) /\ ReaderLoadOf(op))
             => /\ localStatus' = "error"
                /\ emptyFile(op) <=> statusMsg' = "Empty file"
                /\ noValidTasks(op) <=> statusMsg' = "No valid tasks found"
                /\ importNotStarted(op)]_vars

\* an empty file was read with tasks in the collection: the error of the
\* empty file is shown and nothing is in flight
C24_Witness ==
    /\ pc = "mounted" /\ localStatus = "error" /\ statusMsg = "Empty file"
    /\ pending = {} /\ ~isSaving /\ tasks # <<>>

(***************************************************************************)
(* The lines and fields of an exported file                                *)
(***************************************************************************)
\* C25: for every task list, tasksToCSV emits exactly one header line plus
\* one line per task, and the tokenizer of the parser splits every data line
\* into exactly 11 fields, whatever characters the id, name, category,
\* dependencies and notes of the task contain
C25_OneLinePerTaskElevenFields ==
    pc = "exported" =>
        \A lines \in {listOf(splitLines(csv))} :
            /\ Len(lines) = Len(tasks) + 1
            /\ lines[1] = join(headers, ",")
            /\ \A i \in 2..Len(lines) : Len(tokenize(trim(lines[i]))) = Len(headers)

(***************************************************************************)
(* The dependencies of imported tasks                                      *)
(***************************************************************************)
\* the ids that the dependencies of a task name
dependencyIds(t) == {t.dependencies[d] : d \in 1..Len(t.dependencies)}

\* the rows of an import whose id is `id` in the file and was replaced by a
\* new one
regeneratedRows(op, id) ==
    {j \in 1..Len(op.newTasks) : op.newTasks[j].id = id /\ op.list[j].id # id}

\* C26: after the sanitization of an import, every dependency id of every
\* task handed to syncTasks names a task of the same import under its final
\* id or a task already in the collection, and a dependency written against
\* an id that was regenerated is rewritten to the new id, not dropped
C26_DependenciesFollowNewIds ==
    \A op \in pending :
        op.kind = "sync" =>
            /\ Len(op.list) = Len(op.newTasks)
            /\ \A i \in 1..Len(op.list) :
                  /\ \A depId \in dependencyIds(op.list[i]) :
                        someId(op.list, depId) \/ someId(op.existing, depId)
                  /\ \A depId \in dependencyIds(op.newTasks[i]) :
                        regeneratedRows(op, depId) # {} =>
                            \E j \in regeneratedRows(op, depId) :
                                op.list[j].id \in dependencyIds(op.list[i])

\* an import in flight whose file wrote a dependency against an id that was
\* regenerated
C26_Witness ==
    \E op \in pending :
        /\ op.kind = "sync"
        /\ \E i \in 1..Len(op.newTasks) :
              \E depId \in dependencyIds(op.newTasks[i]) :
                 regeneratedRows(op, depId) # {}

(***************************************************************************)
(* Saves and deletes that fail                                             *)
(***************************************************************************)
\* the application with its form and its delete confirmation
NextSaving ==
    \/ LoadTasksResolve
    \/ LoadTasksReject
    \/ AddNew
    \/ EditClick
    \/ ChangeName
    \/ Submit
    \/ CloseForm
    \/ SaveResolve
    \/ SaveReject
    \/ ConfirmDelete
    \/ CancelDelete
    \/ ExecuteDelete
    \/ DeleteResolve
    \/ DeleteReject

SpecSaving == InitApp /\ [][NextSaving]_vars

\* C27: when the persistence call of a form save or of a confirmed delete
\* fails, the collection is left exactly as it was (no task added, replaced
\* or removed) and the operation is not retried: it leaves the operations in
\* flight and no operation is started
C27_FailedSaveOrDeleteLeavesTasks ==
    [][(SaveReject \/ DeleteReject)
          => /\ tasks' = tasks
             /\ pending' \subseteq pending
             /\ Cardinality(pending') = Cardinality(pending) - 1
             /\ opCount' = opCount
             /\ ~isSaving']_vars

\* the save of a changed task has failed: the failure is shown, nothing is in
\* flight and the collection holds the task as it was loaded
C27_Witness ==
    /\ pc = "mounted" /\ pending = {} /\ saveCount > 0
    /\ notification # NoNotification
    /\ notification.message = <<"Failed to save task">>
    /\ tasks \in Stores

(***************************************************************************)
(* The import control after an import                                      *)
(***************************************************************************)
\* the imports with the scheduling of the browser: a read that was started
\* ends, a call of the gateway settles, a timer that was set fires
SpecImportingFair ==
    /\ InitApp
    /\ [][NextImporting]_vars
    /\ WF_vars(ReaderError \/ ReaderLoad)
    /\ WF_vars(SyncResolve \/ SyncReject)
    /\ WF_vars(DeleteResolve \/ DeleteReject)
    /\ WF_vars(StatusResolve \/ StatusReject)
    /\ WF_vars(StatusTimer)

\* an import attempt has finished: a file was selected, and neither its read
\* nor its sync is in flight
importFinished ==
    /\ pc = "mounted"
    /\ localStatus \in {"parsing", "error"}
    /\ importsInFlight = {}

\* the import control is idle and enabled
importReady == localStatus = "idle" /\ ~importDisabled(isSaving, localStatus)

\* C28: after every finished import attempt (the file parsed and the sync
\* call resolved or rejected, or the file was empty, unreadable or without
\* valid rows) the import control eventually returns to its idle, enabled
\* state, so that another import can be started
C28_ImportControlReturnsToIdle == importFinished ~> importReady

(***************************************************************************)
(* Status changes and form saves of one task                               *)
(***************************************************************************)
\* the application with the task list and the form only: status changes and
\* edits of stored tasks, whose calls of saveTask settle in any order
NextStatus ==
    \/ LoadTasksResolve
    \/ LoadTasksReject
    \/ StatusChange
    \/ StatusResolve
    \/ StatusReject
    \/ EditClick
    \/ ChangeDependencies
    \/ Submit
    \/ CloseForm
    \/ SaveResolve
    \/ SaveReject

SpecStatus == InitApp /\ [][NextStatus]_vars

\* tasks.find(t => t.id === id) of a collection that holds the id
heldTask(ts, id) ==
    ts[CHOOSE j \in 1..Len(ts) :
          /\ ts[j].id = id
          /\ \A k \in 1..(j - 1) : ts[k].id # id]

\* the step settles the status change op, the last call in flight
lastSettles(op) ==
    /\ op.kind = "status"
    /\ pending = {op}
    /\ pending' = {}
    /\ someId(tasks', op.id)

\* C29: for any interleaving of status changes and form saves on the same
\* task whose calls of saveTask succeed or fail in any order, once all calls
\* have settled the locally held task equals the task last successfully
\* written to the store: when the last call succeeds and no other write of the
\* task succeeded meanwhile, the task it wrote; when it fails after a later
\* change of the task was persisted, that change and not the older snapshot
\* of the failed call
C29_SettledTaskIsLastWritten ==
    [][\A op \in pending :
          lastSettles(op) =>
             /\ (notification'.type = "success" /\ op.persisted = <<>>) =>
                    heldTask(tasks', op.id) = op.updated
             /\ (notification'.type = "error" /\ op.persisted # <<>>) =>
                    heldTask(tasks', op.id) = op.persisted]_vars

====
